---- MODULE Spec2Model ----
(***************************************************************************)
(* Model of the renovation-journey chat backend (server/app/chat):         *)
(* the journey record, the Sentinel's update_journey tool handler with its *)
(* all-milestones evaluator (sentinel_functions.py), the per-checkpoint    *)
(* normalizer and target selection of the Sentinel (sentinel.py), and the  *)
(* keyword fallback extractor with its current-milestone evaluator         *)
(* (handler.py), driven by chat turns (JourneyHandler.process_message).    *)
(*                                                                         *)
(* Specifications:                                                         *)
(*   Spec          chat turns over the extraction paths of one journey;    *)
(*   SpecEval      the two evaluators applied to enumerated journeys;      *)
(*   SpecPrompt    the prompt selector (prompts.py) on enumerated journeys;*)
(*   SpecTurn      one chat turn step by step, with the failures of the    *)
(*                 model calls and of the store calls;                     *)
(*   SpecScenario  the two turns that complete milestone 3;                *)
(*   SpecSessions  the users and journeys tables under session starts,     *)
(*                 session resumes, journey creations and chat turns;      *)
(*   SpecNormalize the normalizer applied to enumerated raw values;        *)
(*   SpecTarget    the target selection on enumerated journeys;            *)
(*   SpecFallback  one run of the keyword fallback on enumerated journeys; *)
(*   SpecRace      chat turns interleaved on one journey, each with a      *)
(*                 store session of its own;                               *)
(*   SpecIsolation chat requests of two users with a journey each;         *)
(*   SpecInput     chat turns with the input of the response call;         *)
(*   SpecProgress  turns in which the user answers the question asked,     *)
(*                 with weak fairness of the turns.                        *)
(***************************************************************************)
EXTENDS Integers, Sequences, FiniteSets, TLC

VARIABLES journey, pc, message, ncalls, clock, changed, last_call, evalrun,
          messages, result, turn, prompt, users, journeys, context,
          returned, tasks, input_data

\* The message log of the journey, the value process_message returned, and
\* the bookkeeping of the turn in progress.
turnvars == <<messages, result, turn>>

\* The users and journeys tables as the session endpoints see them.
sessvars == <<users, journeys>>

\* The system prompt selected for the response call, the context mapping
\* built for it, and the input handed to the response call.
promptvars == <<prompt, context, input_data>>

\* `returned` is the value returned by a function of the Sentinel that is run
\* on its own (the normalizer, the choice of the target checkpoint); `tasks`
\* holds the chat turns that run interleaved on one journey.
vars == <<journey, pc, message, ncalls, clock, changed, last_call, evalrun,
          messages, result, turn, prompt, users, journeys, context,
          returned, tasks, input_data>>

\* ------------------------------------------------------------------ bounds
\* Number of chat turns explored (each turn reads the clock once more).
MaxTurns == 2
\* Number of function calls one Sentinel model response may contain.
MaxCalls == 2
\* Number of chat turns that run interleaved on one journey.
MaxTasks == 2

\* ----------------------------------------------------------------- strings
\* Python None.
Null == "<None>"

\* An Optional[datetime] column: Nil when NULL, <<t>> when stamped at time t.
Nil == <<>>

\* Python truthiness of an Optional[str]: None and "" are falsy.
Truthy(v) == v # Null /\ v # ""

\* Python `kw in s` on strings: substring test.
Contains(kw, s) ==
    \E i \in 1..(Len(s) - Len(kw) + 1) : SubSeq(s, i, i + Len(kw) - 1) = kw

\* The letters str.lower() changes.
UpperLetters ==
    {"A", "B", "C", "D", "E", "F", "G", "H", "I", "J", "K", "L", "M", "N",
     "O", "P", "Q", "R", "S", "T", "U", "V", "W", "X", "Y", "Z", "À", "Á",
     "Â", "Ã", "Ä", "Å", "Æ", "Ç", "È", "É", "Ê", "Ë", "Ì", "Í", "Î", "Ï",
     "Ð", "Ñ", "Ò", "Ó", "Ô", "Õ", "Ö", "Ø", "Ù", "Ú", "Û", "Ü", "Ý", "Þ"}

\* str.lower() of one character.
LowerChar(c) ==
    IF c \notin UpperLetters THEN c ELSE
    CASE c = "A" -> "a" [] c = "B" -> "b" [] c = "C" -> "c" [] c = "D" -> "d"
      [] c = "E" -> "e" [] c = "F" -> "f" [] c = "G" -> "g" [] c = "H" -> "h"
      [] c = "I" -> "i" [] c = "J" -> "j" [] c = "K" -> "k" [] c = "L" -> "l"
      [] c = "M" -> "m" [] c = "N" -> "n" [] c = "O" -> "o" [] c = "P" -> "p"
      [] c = "Q" -> "q" [] c = "R" -> "r" [] c = "S" -> "s" [] c = "T" -> "t"
      [] c = "U" -> "u" [] c = "V" -> "v" [] c = "W" -> "w" [] c = "X" -> "x"
      [] c = "Y" -> "y" [] c = "Z" -> "z"
      [] c = "À" -> "à" [] c = "Á" -> "á" [] c = "Â" -> "â" [] c = "Ã" -> "ã"
      [] c = "Ä" -> "ä" [] c = "Å" -> "å" [] c = "Æ" -> "æ" [] c = "Ç" -> "ç"
      [] c = "È" -> "è" [] c = "É" -> "é" [] c = "Ê" -> "ê" [] c = "Ë" -> "ë"
      [] c = "Ì" -> "ì" [] c = "Í" -> "í" [] c = "Î" -> "î" [] c = "Ï" -> "ï"
      [] c = "Ð" -> "ð" [] c = "Ñ" -> "ñ" [] c = "Ò" -> "ò" [] c = "Ó" -> "ó"
      [] c = "Ô" -> "ô" [] c = "Õ" -> "õ" [] c = "Ö" -> "ö" [] c = "Ø" -> "ø"
      [] c = "Ù" -> "ù" [] c = "Ú" -> "ú" [] c = "Û" -> "û" [] c = "Ü" -> "ü"
      [] c = "Ý" -> "ý" [] c = "Þ" -> "þ"
      [] OTHER -> c

\* str.lower() (letters up to U+00FF).
RECURSIVE Lower(_)
Lower(s) ==
    IF Len(s) = 0 THEN ""
    ELSE CHOOSE lowered \in
            { LowerChar(SubSeq(s, 1, 1)) \o Lower(rest) :
                rest \in {SubSeq(s, 2, Len(s))} } : TRUE

\* str.isspace() of one character, the whitespace str.strip() removes: the
\* ASCII blanks \t \n \x0b \f \r, the separators \x1c to \x1f, the space,
\* \x85 and \xa0.  (The spaces beyond U+00FF cannot be written in a string
\* of this module.)
IsSpace(c) ==
    c \in {" ", "\t", "\n", "\r", "\f", "", "", "", "", "",
          "", " "}

\* str.strip(): drop leading and trailing whitespace.
RECURSIVE LStrip(_)
LStrip(s) ==
    IF Len(s) > 0 /\ IsSpace(SubSeq(s, 1, 1))
    THEN LStrip(SubSeq(s, 2, Len(s))) ELSE s

RECURSIVE RStrip(_)
RStrip(s) ==
    IF Len(s) > 0 /\ IsSpace(SubSeq(s, Len(s), Len(s)))
    THEN RStrip(SubSeq(s, 1, Len(s) - 1)) ELSE s

Strip(s) == RStrip(LStrip(s))

\* First element of a list of words that occurs in s, or Null.
RECURSIVE FirstIn(_, _)
FirstIn(words, s) ==
    IF words = <<>> THEN Null
    ELSE IF Contains(Head(words), s) THEN Head(words)
    ELSE FirstIn(Tail(words), s)

\* any(w in s for w in words)
AnyIn(words, s) == \E i \in 1..Len(words) : Contains(words[i], s)

\* ------------------------------------------------------- checkpoint tables
\* valid_checkpoints of the update_journey tool handler.
valid_checkpoints ==
    <<"room", "renovation_purpose", "budget_range",
      "timeline", "style_preference", "priority_feature">>

CheckpointNames == {valid_checkpoints[i] : i \in 1..Len(valid_checkpoints)}

\* Sentinel._get_valid_checkpoints_for_milestone
_get_valid_checkpoints_for_milestone(milestone) ==
    IF milestone = 1 THEN <<"room", "renovation_purpose">>
    ELSE IF milestone = 2 THEN <<"budget_range", "timeline">>
    ELSE IF milestone = 3 THEN <<"style_preference", "priority_feature">>
    ELSE <<>>

\* Canonical vocabularies of the four constrained checkpoints (the values the
\* normalizer can return for them).
CanonicalValues(checkpoint) ==
    CASE checkpoint = "budget_range" -> {"low", "medium", "high"}
      [] checkpoint = "timeline" -> {"weeks", "months"}
      [] checkpoint = "style_preference" ->
            {"modern", "traditional", "rustic", "minimalist", "contemporary"}
      [] checkpoint = "priority_feature" ->
            {"storage", "lighting", "space", "energy efficiency",
             "smart features"}

ConstrainedCheckpoints ==
    {"budget_range", "timeline", "style_preference", "priority_feature"}

\* -------------------------------------------------------------- normalizer
valid_rooms ==
    <<"kitchen", "bathroom", "bedroom", "living room", "dining room",
      "basement", "attic", "office", "master bedroom", "guest bedroom",
      "den", "family room", "laundry room", "utility room", "garage">>

valid_purposes ==
    <<"aesthetic", "functional", "repair", "modernize", "expand space">>

\* Sentinel._validate_checkpoint_value, after value = value.strip().lower()
ValidateLowered(checkpoint, value) ==
    IF checkpoint = "room" THEN
        IF FirstIn(valid_rooms, value) # Null
        THEN FirstIn(valid_rooms, value) ELSE value
    ELSE IF checkpoint = "renovation_purpose" THEN
        IF FirstIn(valid_purposes, value) # Null
            THEN FirstIn(valid_purposes, value)
        ELSE IF AnyIn(<<"look", "appearanc", "beaut">>, value)
            THEN "aesthetic"
        ELSE IF AnyIn(<<"use", "practi", "utili">>, value)
            THEN "functional"
        ELSE IF AnyIn(<<"fix", "broke", "damage">>, value)
            THEN "repair"
        ELSE IF AnyIn(<<"updat", "renew", "fresh">>, value)
            THEN "modernize"
        ELSE IF AnyIn(<<"more room", "bigger", "larger">>, value)
            THEN "expand space"
        ELSE value
    ELSE IF checkpoint = "budget_range" THEN
        IF AnyIn(<<"low", "cheap", "afford", "budget", "inexpens">>, value)
            THEN "low"
        ELSE IF AnyIn(<<"medium", "moderate", "reasonable", "mid">>, value)
            THEN "medium"
        ELSE IF AnyIn(<<"high", "expens", "premium", "luxury">>, value)
            THEN "high"
        ELSE "medium"
    ELSE IF checkpoint = "timeline" THEN
        IF AnyIn(<<"quick", "fast", "soon", "week", "day", "asap">>, value)
            THEN "weeks"
        ELSE IF AnyIn(<<"slow", "month", "time", "no rush", "not urgent">>,
                      value)
            THEN "months"
        ELSE "months"
    ELSE IF checkpoint = "style_preference" THEN
        IF AnyIn(<<"modern", "contemporary", "sleek", "clean">>, value)
            THEN "modern"
        ELSE IF AnyIn(<<"tradition", "classic", "conventional">>, value)
            THEN "traditional"
        ELSE IF AnyIn(<<"rustic", "country", "farmhouse", "cabin", "wood">>,
                      value)
            THEN "rustic"
        ELSE IF AnyIn(<<"minimal", "simple", "clean">>, value)
            THEN "minimalist"
        ELSE IF AnyIn(<<"contemp", "current">>, value)
            THEN "contemporary"
        ELSE "modern"
    ELSE IF checkpoint = "priority_feature" THEN
        IF AnyIn(<<"storage", "cabinet", "space", "organization">>, value)
            THEN "storage"
        ELSE IF AnyIn(<<"light", "bright", "dark", "window">>, value)
            THEN "lighting"
        ELSE IF AnyIn(<<"space", "room", "area", "open">>, value)
            THEN "space"
        ELSE IF AnyIn(<<"energy", "efficient", "eco", "green">>, value)
            THEN "energy efficiency"
        ELSE IF AnyIn(<<"smart", "tech", "automation", "device">>, value)
            THEN "smart features"
        ELSE "space"
    ELSE value

\* Every keyword _validate_checkpoint_value tests for a constrained checkpoint.
NormalizerKeywords(checkpoint) ==
    CASE checkpoint = "budget_range" ->
            <<"low", "cheap", "afford", "budget", "inexpens",
              "medium", "moderate", "reasonable", "mid",
              "high", "expens", "premium", "luxury">>
      [] checkpoint = "timeline" ->
            <<"quick", "fast", "soon", "week", "day", "asap",
              "slow", "month", "time", "no rush", "not urgent">>
      [] checkpoint = "style_preference" ->
            <<"modern", "contemporary", "sleek", "clean",
              "tradition", "classic", "conventional",
              "rustic", "country", "farmhouse", "cabin", "wood",
              "minimal", "simple", "contemp", "current">>
      [] checkpoint = "priority_feature" ->
            <<"storage", "cabinet", "space", "organization",
              "light", "bright", "dark", "window",
              "room", "area", "open",
              "energy", "efficient", "eco", "green",
              "smart", "tech", "automation", "device">>

\* A normalizer that rejects (returns None) when no keyword matches.
_validate_checkpoint_value_rejects(checkpoint, value) ==
    IF /\ checkpoint \in ConstrainedCheckpoints
       /\ ~AnyIn(NormalizerKeywords(checkpoint), Lower(Strip(value)))
    THEN Null
    ELSE ValidateLowered(checkpoint, Lower(Strip(value)))

\* Sentinel._validate_checkpoint_value
_validate_checkpoint_value(checkpoint, value) ==
    ValidateLowered(checkpoint, Lower(Strip(value)))

\* ----------------------------------------------------------- journey store
\* crud.create_journey with the column defaults of schemas.RenovationJourney.
NewJourney(now) ==
    [ id |-> 1,
      current_milestone |-> 1,
      status |-> "in_progress",
      room |-> Null,
      renovation_purpose |-> Null,
      milestone1_completed |-> FALSE,
      milestone1_completed_at |-> Nil,
      budget_range |-> Null,
      timeline |-> Null,
      milestone2_completed |-> FALSE,
      milestone2_completed_at |-> Nil,
      style_preference |-> Null,
      priority_feature |-> Null,
      milestone3_completed |-> FALSE,
      milestone3_completed_at |-> Nil,
      updated_at |-> now ]

\* An empty update_data dictionary.
EmptyData == [k \in {} |-> Null]

\* crud.update_journey on a journey that exists: setattr for every key the
\* row has, then stamp updated_at.
crud_update_journey(j, journey_data, now) ==
    [k \in DOMAIN j |->
        IF k = "updated_at" THEN now
        ELSE IF k \in DOMAIN journey_data THEN journey_data[k]
        ELSE j[k]]

\* ------------------------------------------------ all-milestones evaluator
\* update_milestone with any() in place of all(): a milestone counts as
\* complete as soon as one of its two checkpoints is filled.
update_milestone_any(j, now) ==
    LET milestone1_complete == Truthy(j.room) \/ Truthy(j.renovation_purpose)
        milestone2_complete == Truthy(j.budget_range) \/ Truthy(j.timeline)
        milestone3_complete ==
            Truthy(j.style_preference) \/ Truthy(j.priority_feature)
        d1 == IF milestone1_complete /\ ~j.milestone1_completed
              THEN ("milestone1_completed" :> TRUE)
                   @@ ("milestone1_completed_at" :> <<now>>)
              ELSE EmptyData
        h1 == IF milestone1_complete THEN 1 ELSE 0
        d2 == IF milestone2_complete /\ ~j.milestone2_completed
              THEN ("milestone2_completed" :> TRUE)
                   @@ ("milestone2_completed_at" :> <<now>>)
              ELSE EmptyData
        h2 == IF milestone2_complete THEN 2 ELSE h1
        d3 == IF milestone3_complete /\ ~j.milestone3_completed
              THEN ("milestone3_completed" :> TRUE)
                   @@ ("milestone3_completed_at" :> <<now>>)
                   @@ ("status" :> "completed")
              ELSE EmptyData
        highest_completed_milestone == IF milestone3_complete THEN 3 ELSE h2
        next_milestone == highest_completed_milestone + 1
        dm == IF highest_completed_milestone < 3
                 /\ j.current_milestone < next_milestone
              THEN ("current_milestone" :> next_milestone)
              ELSE EmptyData
        update_data == d1 @@ d2 @@ d3 @@ dm
    IN  IF DOMAIN update_data # {}
        THEN crud_update_journey(j, update_data, now)
        ELSE j

\* update_milestone that counts only the milestones newly completed by this
\* call (no elif branches) and assigns current_milestone without comparing
\* it to the journey's present value.
update_milestone_recompute(j, now) ==
    LET milestone1_complete == Truthy(j.room) /\ Truthy(j.renovation_purpose)
        milestone2_complete == Truthy(j.budget_range) /\ Truthy(j.timeline)
        milestone3_complete ==
            Truthy(j.style_preference) /\ Truthy(j.priority_feature)
        new1 == milestone1_complete /\ ~j.milestone1_completed
        new2 == milestone2_complete /\ ~j.milestone2_completed
        new3 == milestone3_complete /\ ~j.milestone3_completed
        d1 == IF new1
              THEN ("milestone1_completed" :> TRUE)
                   @@ ("milestone1_completed_at" :> <<now>>)
              ELSE EmptyData
        d2 == IF new2
              THEN ("milestone2_completed" :> TRUE)
                   @@ ("milestone2_completed_at" :> <<now>>)
              ELSE EmptyData
        d3 == IF new3
              THEN ("milestone3_completed" :> TRUE)
                   @@ ("milestone3_completed_at" :> <<now>>)
                   @@ ("status" :> "completed")
              ELSE EmptyData
        highest_completed_milestone ==
            IF new3 THEN 3 ELSE IF new2 THEN 2 ELSE IF new1 THEN 1 ELSE 0
        next_milestone == highest_completed_milestone + 1
        dm == IF highest_completed_milestone < 3
                 /\ j.current_milestone # next_milestone
              THEN ("current_milestone" :> next_milestone)
              ELSE EmptyData
        update_data == d1 @@ d2 @@ d3 @@ dm
    IN  IF DOMAIN update_data # {}
        THEN crud_update_journey(j, update_data, now)
        ELSE j

\* update_milestone that stamps the flag and the timestamp of every milestone
\* whose checkpoints are filled, without testing the flag first.
update_milestone_restamp(j, now) ==
    LET milestone1_complete == Truthy(j.room) /\ Truthy(j.renovation_purpose)
        milestone2_complete == Truthy(j.budget_range) /\ Truthy(j.timeline)
        milestone3_complete ==
            Truthy(j.style_preference) /\ Truthy(j.priority_feature)
        d1 == IF milestone1_complete
              THEN ("milestone1_completed" :> TRUE)
                   @@ ("milestone1_completed_at" :> <<now>>)
              ELSE EmptyData
        h1 == IF milestone1_complete THEN 1 ELSE 0
        d2 == IF milestone2_complete
              THEN ("milestone2_completed" :> TRUE)
                   @@ ("milestone2_completed_at" :> <<now>>)
              ELSE EmptyData
        h2 == IF milestone2_complete THEN 2 ELSE h1
        d3 == IF milestone3_complete
              THEN ("milestone3_completed" :> TRUE)
                   @@ ("milestone3_completed_at" :> <<now>>)
                   @@ ("status" :> "completed")
              ELSE EmptyData
        highest_completed_milestone == IF milestone3_complete THEN 3 ELSE h2
        next_milestone == highest_completed_milestone + 1
        dm == IF highest_completed_milestone < 3
                 /\ j.current_milestone < next_milestone
              THEN ("current_milestone" :> next_milestone)
              ELSE EmptyData
        update_data == d1 @@ d2 @@ d3 @@ dm
    IN  IF DOMAIN update_data # {}
        THEN crud_update_journey(j, update_data, now)
        ELSE j

\* sentinel_functions.update_milestone
update_milestone(j, now) ==
    LET milestone1_complete == Truthy(j.room) /\ Truthy(j.renovation_purpose)
        milestone2_complete == Truthy(j.budget_range) /\ Truthy(j.timeline)
        milestone3_complete ==
            Truthy(j.style_preference) /\ Truthy(j.priority_feature)
        d1 == IF milestone1_complete /\ ~j.milestone1_completed
              THEN ("milestone1_completed" :> TRUE)
                   @@ ("milestone1_completed_at" :> <<now>>)
              ELSE EmptyData
        h1 == IF milestone1_complete THEN 1 ELSE 0
        d2 == IF milestone2_complete /\ ~j.milestone2_completed
              THEN ("milestone2_completed" :> TRUE)
                   @@ ("milestone2_completed_at" :> <<now>>)
              ELSE EmptyData
        h2 == IF milestone2_complete THEN 2 ELSE h1
        d3 == IF milestone3_complete /\ ~j.milestone3_completed
              THEN ("milestone3_completed" :> TRUE)
                   @@ ("milestone3_completed_at" :> <<now>>)
                   @@ ("status" :> "completed")
              ELSE EmptyData
        highest_completed_milestone == IF milestone3_complete THEN 3 ELSE h2
        next_milestone == highest_completed_milestone + 1
        dm == IF highest_completed_milestone < 3
                 /\ j.current_milestone < next_milestone
              THEN ("current_milestone" :> next_milestone)
              ELSE EmptyData
        update_data == d1 @@ d2 @@ d3 @@ dm
    IN  IF DOMAIN update_data # {}
        THEN crud_update_journey(j, update_data, now)
        ELSE j

\* ----------------------------------------------- update_journey tool call
\* sentinel_functions.update_journey applied to the stored journey j:
\* the journey afterwards and the kind of result object returned.
\* journey_id 0 stands for a falsy id (None or 0); a missing checkpoint_name
\* or value is Null.
update_journey(j, journey_id, checkpoint_name, value, now) ==
    IF journey_id = 0
        THEN [journey |-> j, result |-> "error"]
    ELSE IF ~Truthy(checkpoint_name) \/ ~Truthy(value)
        THEN [journey |-> j, result |-> "error"]
    ELSE IF checkpoint_name \notin CheckpointNames
        THEN [journey |-> j, result |-> "error"]
    ELSE IF journey_id # j.id
        THEN [journey |-> j, result |-> "error"]
    ELSE [journey |->
            update_milestone(
                crud_update_journey(j, (checkpoint_name :> value), now), now),
          result |-> "success"]

\* A journey_id key that is absent from the arguments of a function call.
Absent == -1

\* The update_journey entry of function_handlers in Sentinel.analyze, run on
\* the arguments of one function call: an absent journey_id defaults to the
\* id of the journey under analysis, an absent checkpoint_name or value is
\* None.
function_handlers(j, call, now) ==
    update_journey(j,
                   IF call.journey_id = Absent THEN j.id ELSE call.journey_id,
                   call.checkpoint_name, call.value, now)

\* A target choice that looks at all six checkpoints in order, whatever the
\* current milestone.
_get_next_checkpoint_to_extract_any_milestone(j) ==
    IF j.current_milestone \notin 1..3 THEN Null
    ELSE IF ~Truthy(j.room) THEN "room"
    ELSE IF ~Truthy(j.renovation_purpose) THEN "renovation_purpose"
    ELSE IF ~Truthy(j.budget_range) THEN "budget_range"
    ELSE IF ~Truthy(j.timeline) THEN "timeline"
    ELSE IF ~Truthy(j.style_preference) THEN "style_preference"
    ELSE IF ~Truthy(j.priority_feature) THEN "priority_feature"
    ELSE Null

\* ------------------------------------------------------- Sentinel's target
\* Sentinel._get_next_checkpoint_to_extract (the checkpoint name; Null when
\* there is no active checkpoint question).
_get_next_checkpoint_to_extract(j) ==
    IF j.current_milestone = 1 THEN
        IF ~Truthy(j.room) THEN "room"
        ELSE IF ~Truthy(j.renovation_purpose) THEN "renovation_purpose"
        ELSE Null
    ELSE IF j.current_milestone = 2 THEN
        IF ~Truthy(j.budget_range) THEN "budget_range"
        ELSE IF ~Truthy(j.timeline) THEN "timeline"
        ELSE Null
    ELSE IF j.current_milestone = 3 THEN
        IF ~Truthy(j.style_preference) THEN "style_preference"
        ELSE IF ~Truthy(j.priority_feature) THEN "priority_feature"
        ELSE Null
    ELSE Null

\* --------------------------------------------- current-milestone evaluator
\* _check_milestone_completion that completes milestone 3 without setting
\* the journey's status.
_check_milestone_completion_nostatus(j, now) ==
    LET update_data ==
            IF j.current_milestone = 1 /\ ~j.milestone1_completed THEN
                IF Truthy(j.room) /\ Truthy(j.renovation_purpose)
                THEN ("milestone1_completed" :> TRUE)
                     @@ ("milestone1_completed_at" :> <<now>>)
                ELSE EmptyData
            ELSE IF j.current_milestone = 2 /\ ~j.milestone2_completed THEN
                IF Truthy(j.budget_range) /\ Truthy(j.timeline)
                THEN ("milestone2_completed" :> TRUE)
                     @@ ("milestone2_completed_at" :> <<now>>)
                ELSE EmptyData
            ELSE IF j.current_milestone = 3 /\ ~j.milestone3_completed THEN
                IF Truthy(j.style_preference) /\ Truthy(j.priority_feature)
                THEN ("milestone3_completed" :> TRUE)
                     @@ ("milestone3_completed_at" :> <<now>>)
                ELSE EmptyData
            ELSE EmptyData
    IN  IF DOMAIN update_data # {}
        THEN crud_update_journey(j, update_data, now)
        ELSE j

\* A current-milestone evaluator that also advances current_milestone when
\* it flags milestone 1 or 2.
_check_milestone_completion_advances(j, now) ==
    LET flagged == _check_milestone_completion_nostatus(j, now)
    IN  IF flagged = j THEN j
        ELSE IF j.current_milestone < 3
        THEN [flagged EXCEPT !.current_milestone = @ + 1]
        ELSE [flagged EXCEPT !.status = "completed"]

\* JourneyHandler._check_milestone_completion
_check_milestone_completion(j, now) ==
    LET update_data ==
            IF j.current_milestone = 1 /\ ~j.milestone1_completed THEN
                IF Truthy(j.room) /\ Truthy(j.renovation_purpose)
                THEN ("milestone1_completed" :> TRUE)
                     @@ ("milestone1_completed_at" :> <<now>>)
                ELSE EmptyData
            ELSE IF j.current_milestone = 2 /\ ~j.milestone2_completed THEN
                IF Truthy(j.budget_range) /\ Truthy(j.timeline)
                THEN ("milestone2_completed" :> TRUE)
                     @@ ("milestone2_completed_at" :> <<now>>)
                ELSE EmptyData
            ELSE IF j.current_milestone = 3 /\ ~j.milestone3_completed THEN
                IF Truthy(j.style_preference) /\ Truthy(j.priority_feature)
                THEN ("milestone3_completed" :> TRUE)
                     @@ ("milestone3_completed_at" :> <<now>>)
                     @@ ("status" :> "completed")
                ELSE EmptyData
            ELSE EmptyData
    IN  IF DOMAIN update_data # {}
        THEN crud_update_journey(j, update_data, now)
        ELSE j

\* ------------------------------------------------ keyword fallback extractor
\* The keyword dictionaries of _analyze_message_for_checkpoints, in their
\* insertion (iteration) order, as <<keyword, value>> pairs.
room_keywords ==
    << <<"kitchen", "kitchen">>, <<"bathroom", "bathroom">>,
       <<"bedroom", "bedroom">>, <<"living room", "living room">>,
       <<"basement", "basement">> >>

purpose_keywords ==
    << <<"aesthetic", "aesthetic">>, <<"functional", "functional">>,
       <<"repair", "repair">>, <<"expand", "expand space">>,
       <<"modern", "modernize">> >>

budget_keywords ==
    << <<"cheap", "low">>, <<"affordable", "low">>,
       <<"reasonable", "medium">>, <<"mid", "medium">>,
       <<"expensive", "high">>, <<"luxury", "high">> >>

timeline_keywords ==
    << <<"quick", "weeks">>, <<"fast", "weeks">>, <<"soon", "weeks">>,
       <<"month", "months">>, <<"long", "months">> >>

style_keywords ==
    << <<"modern", "modern">>, <<"traditional", "traditional">>,
       <<"rustic", "rustic">>, <<"minimalist", "minimalist">>,
       <<"contemporary", "contemporary">> >>

feature_keywords ==
    << <<"storage", "increased storage">>, <<"light", "natural lighting">>,
       <<"space", "open space">>, <<"energy", "energy efficiency">>,
       <<"smart", "smart home features">> >>

\* User messages submitted to process_message.
Messages ==
    {"Hello there",
     "My Kitchen needs repair: cheap and quick, modern with storage"}

\* The lower-case forms of these messages, each computed by Lower once.
LoweredMessages == {<<m, Lower(m)>> : m \in Messages}

\* message.lower() (line 363): looked up for the messages above, computed
\* for any other text.
MessageLower(msg) ==
    IF msg \in Messages
    THEN (CHOOSE pair \in LoweredMessages : pair[1] = msg)[2]
    ELSE Lower(msg)

\* The keywords of a dictionary found in the text, as their positions in
\* the dictionary.
KeywordHits(keywords, message_lower) ==
    {i \in 1..Len(keywords) : Contains(keywords[i][1], message_lower)}

\* The keywords found in the messages above, each search made once.
KnownHits ==
    { <<pair[2], keywords, KeywordHits(keywords, pair[2])>> :
        pair \in LoweredMessages,
        keywords \in {room_keywords, purpose_keywords, budget_keywords,
                      timeline_keywords, style_keywords, feature_keywords} }

\* The keywords found in the text: looked up for the messages above,
\* searched for in any other text.
HitsIn(keywords, message_lower) ==
    IF \E known \in KnownHits :
           known[1] = message_lower /\ known[2] = keywords
    THEN (CHOOSE known \in KnownHits :
              known[1] = message_lower /\ known[2] = keywords)[3]
    ELSE KeywordHits(keywords, message_lower)

\* A keyword loop without the test that the field is still empty.
KeywordUpdate_overwrites(keywords, field, current, message_lower) ==
    LET hits == HitsIn(keywords, message_lower)
        first == CHOOSE i \in hits : \A k \in hits : i <= k
    IN  IF hits # {}
        THEN (field :> keywords[first][2])
        ELSE EmptyData

\* The for/break loop over one keyword dictionary: the value of the first
\* keyword found in the message when the field is still falsy, else no entry.
KeywordUpdate(keywords, field, current, message_lower) ==
    LET hits == HitsIn(keywords, message_lower)
        first == CHOOSE i \in hits : \A k \in hits : i <= k
    IN  IF hits # {} /\ ~Truthy(current)
        THEN (field :> keywords[first][2])
        ELSE EmptyData

\* JourneyHandler._analyze_message_for_checkpoints, lines 363-453: the
\* update_data dictionary collected from the keywords of the message.
\* message_lower is bound as a value, so that it is computed once.
fallback_update_data(j, msg) ==
    CHOOSE update_data \in
        { IF j.current_milestone = 1 THEN
              KeywordUpdate(room_keywords, "room", j.room, message_lower)
              @@ KeywordUpdate(purpose_keywords, "renovation_purpose",
                               j.renovation_purpose, message_lower)
          ELSE IF j.current_milestone = 2 THEN
              KeywordUpdate(budget_keywords, "budget_range",
                            j.budget_range, message_lower)
              @@ KeywordUpdate(timeline_keywords, "timeline",
                               j.timeline, message_lower)
          ELSE IF j.current_milestone = 3 THEN
              KeywordUpdate(style_keywords, "style_preference",
                            j.style_preference, message_lower)
              @@ KeywordUpdate(feature_keywords, "priority_feature",
                               j.priority_feature, message_lower)
          ELSE EmptyData : message_lower \in {MessageLower(msg)} } : TRUE

\* JourneyHandler._analyze_message_for_checkpoints.  update_data is bound as
\* a value, so that it is computed once however often it is read.
_analyze_message_for_checkpoints(j, msg, now) ==
    CHOOSE returned_journey \in
        { IF DOMAIN update_data # {}
          THEN _check_milestone_completion(
                   crud_update_journey(j, update_data, now), now)
          ELSE j : update_data \in {fallback_update_data(j, msg)} } : TRUE

\* --------------------------------------------------------- prompt selector
\* JourneyHandler._get_completed_checkpoints: the checkpoints of the current
\* milestone that hold a truthy value, in declaration order.
_get_completed_checkpoints(j) ==
    IF j.current_milestone \in 1..3 THEN
        LET cps == _get_valid_checkpoints_for_milestone(j.current_milestone)
        IN  (IF Truthy(j[cps[1]]) THEN <<cps[1]>> ELSE <<>>)
            \o (IF Truthy(j[cps[2]]) THEN <<cps[2]>> ELSE <<>>)
    ELSE <<>>

\* A context mapping that also holds the populated fields of later
\* milestones.
_build_context_all(j) ==
    LET entry(name) == IF Truthy(j[name]) THEN (name :> j[name])
                       ELSE EmptyData
    IN  ("milestone" :> j.current_milestone)
        @@ ("completed_checkpoints" :> _get_completed_checkpoints(j))
        @@ entry("room") @@ entry("renovation_purpose")
        @@ entry("budget_range") @@ entry("timeline")
        @@ entry("style_preference") @@ entry("priority_feature")

\* JourneyHandler._build_context: the milestone, the completed checkpoints of
\* the current milestone, and the truthy checkpoint values of the milestones
\* up to the current one.
_build_context(j) ==
    LET entry(name) == IF Truthy(j[name]) THEN (name :> j[name])
                       ELSE EmptyData
        unlocked(n) == IF j.current_milestone >= n
                       THEN entry(_get_valid_checkpoints_for_milestone(n)[1])
                            @@ entry(_get_valid_checkpoints_for_milestone(n)[2])
                       ELSE EmptyData
    IN  ("milestone" :> j.current_milestone)
        @@ ("completed_checkpoints" :> _get_completed_checkpoints(j))
        @@ unlocked(1) @@ unlocked(2) @@ unlocked(3)

\* Python `x in list`.
InList(x, list) == \E i \in 1..Len(list) : list[i] = x

\* The selector with the "only A is known" tests reduced to "A is known".
get_prompt_for_journey_first_known(j, completed_checkpoints) ==
    IF j.status = "completed" THEN "JOURNEY_COMPLETE"
    ELSE IF j.current_milestone = 1 THEN
        IF j.milestone1_completed THEN "MILESTONE_1_COMPLETE"
        ELSE IF InList("room", completed_checkpoints)
            THEN "MILESTONE_1_ROOM_KNOWN"
        ELSE IF InList("renovation_purpose", completed_checkpoints)
            THEN "MILESTONE_1_PURPOSE_KNOWN"
        ELSE "MILESTONE_1_INTRO"
    ELSE IF j.current_milestone = 2 THEN
        IF j.milestone2_completed THEN "MILESTONE_2_COMPLETE"
        ELSE IF InList("budget_range", completed_checkpoints)
            THEN "MILESTONE_2_BUDGET_KNOWN"
        ELSE IF InList("timeline", completed_checkpoints)
            THEN "MILESTONE_2_TIMELINE_KNOWN"
        ELSE "MILESTONE_2_INTRO"
    ELSE IF j.current_milestone = 3 THEN
        IF j.milestone3_completed THEN "MILESTONE_3_COMPLETE"
        ELSE IF InList("style_preference", completed_checkpoints)
            THEN "MILESTONE_3_STYLE_KNOWN"
        ELSE IF InList("priority_feature", completed_checkpoints)
            THEN "MILESTONE_3_FEATURE_KNOWN"
        ELSE "MILESTONE_3_INTRO"
    ELSE "DEFAULT"

\* prompts.get_prompt_for_journey: the name of the template that is
\* formatted and returned ("DEFAULT" is the inline template of the last
\* branch).
get_prompt_for_journey(j, completed_checkpoints) ==
    IF j.status = "completed" THEN "JOURNEY_COMPLETE"
    ELSE IF j.current_milestone = 1 THEN
        IF j.milestone1_completed THEN "MILESTONE_1_COMPLETE"
        ELSE IF /\ InList("room", completed_checkpoints)
                /\ ~InList("renovation_purpose", completed_checkpoints)
            THEN "MILESTONE_1_ROOM_KNOWN"
        ELSE IF /\ InList("renovation_purpose", completed_checkpoints)
                /\ ~InList("room", completed_checkpoints)
            THEN "MILESTONE_1_PURPOSE_KNOWN"
        ELSE "MILESTONE_1_INTRO"
    ELSE IF j.current_milestone = 2 THEN
        IF j.milestone2_completed THEN "MILESTONE_2_COMPLETE"
        ELSE IF /\ InList("budget_range", completed_checkpoints)
                /\ ~InList("timeline", completed_checkpoints)
            THEN "MILESTONE_2_BUDGET_KNOWN"
        ELSE IF /\ InList("timeline", completed_checkpoints)
                /\ ~InList("budget_range", completed_checkpoints)
            THEN "MILESTONE_2_TIMELINE_KNOWN"
        ELSE "MILESTONE_2_INTRO"
    ELSE IF j.current_milestone = 3 THEN
        IF j.milestone3_completed THEN "MILESTONE_3_COMPLETE"
        ELSE IF /\ InList("style_preference", completed_checkpoints)
                /\ ~InList("priority_feature", completed_checkpoints)
            THEN "MILESTONE_3_STYLE_KNOWN"
        ELSE IF /\ InList("priority_feature", completed_checkpoints)
                /\ ~InList("style_preference", completed_checkpoints)
            THEN "MILESTONE_3_FEATURE_KNOWN"
        ELSE "MILESTONE_3_INTRO"
    ELSE "DEFAULT"

\* ------------------------------------------------------- fallback response
\* str(v) of an Optional[str] inside an f-string.
Str(v) == IF v = Null THEN "None" ELSE v

\* A generator that returns no text.
_generate_response_empty(j, user_message) == ""

\* JourneyHandler._generate_response: the template response of the fallback.
_generate_response(j, user_message) ==
    LET completed_checkpoints == _get_completed_checkpoints(j)
        base == "Thanks for your message! I'm helping you plan your renovation."
        body ==
            IF j.current_milestone = 1 THEN
                base \o " Let's start by figuring out the basic details of your project."
                \o (IF ~InList("room", completed_checkpoints)
                        THEN " Which room are you planning to renovate?"
                    ELSE IF ~InList("renovation_purpose", completed_checkpoints)
                        THEN " What's the main purpose of renovating your "
                             \o Str(j.room) \o "?"
                    ELSE IF j.milestone1_completed
                        THEN " Great! We've established that you want to renovate your "
                             \o Str(j.room) \o " for " \o Str(j.renovation_purpose)
                             \o ". Let's move on to budget and timeline considerations."
                    ELSE "")
            ELSE IF j.current_milestone = 2 THEN
                base \o " Now let's talk about your budget and timeline."
                \o (IF ~InList("budget_range", completed_checkpoints)
                        THEN " What kind of budget do you have in mind? (low, medium, high)"
                    ELSE IF ~InList("timeline", completed_checkpoints)
                        THEN " How quickly are you hoping to complete this "
                             \o Str(j.room) \o " renovation?"
                    ELSE IF j.milestone2_completed
                        THEN " Perfect! You're looking at a " \o Str(j.budget_range)
                             \o " budget with a timeline of " \o Str(j.timeline)
                             \o ". Let's discuss your style preferences next."
                    ELSE "")
            ELSE IF j.current_milestone = 3 THEN
                base \o " Finally, let's talk about style and specific features."
                \o (IF ~InList("style_preference", completed_checkpoints)
                        THEN " What style are you going for? (modern, traditional, etc.)"
                    ELSE IF ~InList("priority_feature", completed_checkpoints)
                        THEN " What's the most important feature you want in your "
                             \o Str(j.style_preference) \o " " \o Str(j.room) \o "?"
                    ELSE IF j.milestone3_completed
                        THEN " Excellent! I now have a complete picture of your renovation plans. You want a "
                             \o Str(j.style_preference) \o " " \o Str(j.room)
                             \o " with " \o Str(j.priority_feature)
                             \o " as a priority feature, on a " \o Str(j.budget_range)
                             \o " budget, completing in " \o Str(j.timeline)
                             \o ". Your renovation journey is complete!"
                    ELSE "")
            ELSE base
    IN  IF j.status = "completed" THEN
            "Your renovation plan is complete! To summarize: A "
            \o Str(j.style_preference) \o " " \o Str(j.room)
            \o " renovation focusing on " \o Str(j.renovation_purpose)
            \o " with " \o Str(j.priority_feature)
            \o " as a key feature. Your budget is in the " \o Str(j.budget_range)
            \o " range with a timeline of " \o Str(j.timeline)
            \o ". Thank you for using our service!"
        ELSE body

\* ------------------------------------------------------------------ inputs
\* Well-formed update_journey arguments the Sentinel's model may produce:
\* a raw value for each of the six checkpoints, and a second, different room.
Proposals ==
    { <<"room", "Kitchen">>,
      <<"room", "bathroom">>,
      <<"renovation_purpose", "fix the leaks">>,
      <<"budget_range", "very affordable option">>,
      <<"timeline", "two weeks">>,
      <<"style_preference", "clean lines">>,
      <<"priority_feature", "eco-friendly">> }

\* Arguments of one update_journey function call of the model's response,
\* as the lambda in Sentinel.analyze passes them to the handler: the
\* well-formed proposals, and malformed calls (null journey_id, absent
\* journey_id, missing checkpoint_name, missing or empty value, a name
\* outside the six checkpoints, the id of a journey that does not exist).
ToolCalls ==
    { [journey_id |-> 1, checkpoint_name |-> p[1], value |-> p[2]] :
        p \in Proposals }
    \cup
    { [journey_id |-> 0, checkpoint_name |-> "room", value |-> "Kitchen"],
      [journey_id |-> Absent, checkpoint_name |-> "room", value |-> "Kitchen"],
      [journey_id |-> 1, checkpoint_name |-> Null, value |-> "Kitchen"],
      [journey_id |-> 1, checkpoint_name |-> "room", value |-> Null],
      [journey_id |-> 1, checkpoint_name |-> "room", value |-> ""],
      [journey_id |-> 1, checkpoint_name |-> "status", value |-> "Kitchen"],
      [journey_id |-> 2, checkpoint_name |-> "room", value |-> "Kitchen"] }

NoCall == [journey_id |-> 0, checkpoint_name |-> Null, value |-> Null]

NoEval == [variant |-> "none", runs |-> 0, first |-> NewJourney(0)]

\* No turn has run: an empty message log, nothing returned, no bookkeeping;
\* no prompt selected; empty users and journeys tables.
NoResult == [error |-> Null, response_text |-> Null, journey_state |-> <<>>]

NoTurn ==
    [ before |-> NewJourney(0), log_before |-> <<>>, user_id |-> 0,
      journey_id |-> 0, store_error |-> FALSE, sentinel_error |-> "none",
      call_result |-> "none", response_failed |-> FALSE, fallback |-> FALSE,
      llm_calls |-> 0, faults |-> 0, session_invalid |-> FALSE,
      analyze_raised |-> FALSE ]

InitOthers ==
    /\ messages = <<>>
    /\ result = NoResult
    /\ turn = NoTurn
    /\ prompt = Null
    /\ context = EmptyData
    /\ input_data = <<>>
    /\ returned = Null
    /\ tasks = <<>>
    /\ users = {}
    /\ journeys = <<>>

\* ----------------------------------------------------------------- actions
Init ==
    /\ journey = NewJourney(0)
    /\ pc = "idle"
    /\ message = Null
    /\ ncalls = 0
    /\ clock = 0
    /\ changed = {}
    /\ last_call = NoCall
    /\ evalrun = NoEval
    /\ InitOthers

\* JourneyHandler.process_message up to the call of Sentinel.analyze: the
\* lookups succeed, the user message is stored, the Sentinel phase starts.
ProcessMessage(msg) ==
    /\ pc = "idle"
    /\ clock < MaxTurns
    /\ pc' = "sentinel"
    /\ message' = msg
    /\ clock' = clock + 1
    /\ ncalls' = 0
    /\ changed' = {}
    /\ last_call' = NoCall
    /\ UNCHANGED <<journey, evalrun>>
    /\ UNCHANGED <<turnvars, promptvars, sessvars, returned, tasks>>

\* One iteration of the loop of handle_function_call_response: the handler
\* registered by Sentinel.analyze runs update_journey on the call's arguments.
HandleFunctionCall(call) ==
    /\ pc = "sentinel"
    /\ ncalls < MaxCalls
    /\ LET r == function_handlers(journey, call, clock)
       IN  /\ journey' = r.journey
           /\ changed' = changed \cup
                  {c \in CheckpointNames : r.journey[c] # journey[c]}
    /\ ncalls' = ncalls + 1
    /\ last_call' = call
    /\ UNCHANGED <<pc, message, clock, evalrun>>
    /\ UNCHANGED <<turnvars, promptvars, sessvars, returned, tasks>>

\* Sentinel.analyze returns (no further function call in the response, or
\* the OpenAI call raised and the error was logged and swallowed).
SentinelDone ==
    /\ pc = "sentinel"
    /\ pc' = "respond"
    /\ ncalls' = 0
    /\ changed' = {}
    /\ last_call' = NoCall
    /\ UNCHANGED <<journey, message, clock, evalrun>>
    /\ UNCHANGED <<turnvars, promptvars, sessvars, returned, tasks>>

\* process_message, response generation succeeds: no journey field changes.
RespondOK ==
    /\ pc = "respond"
    /\ pc' = "idle"
    /\ message' = Null
    /\ UNCHANGED <<journey, ncalls, clock, changed, last_call, evalrun>>
    /\ UNCHANGED <<turnvars, promptvars, sessvars, returned, tasks>>

\* process_message, response generation raises: keyword fallback extraction
\* followed by the current-milestone evaluator.
RespondFallback ==
    /\ pc = "respond"
    /\ journey' = _analyze_message_for_checkpoints(journey, message, clock)
    /\ pc' = "idle"
    /\ message' = Null
    /\ UNCHANGED <<ncalls, clock, changed, last_call, evalrun>>
    /\ UNCHANGED <<turnvars, promptvars, sessvars, returned, tasks>>

Next ==
    \/ \E msg \in Messages : ProcessMessage(msg)
    \/ \E call \in ToolCalls : HandleFunctionCall(call)
    \/ SentinelDone
    \/ RespondOK
    \/ RespondFallback

Spec == Init /\ [][Next]_vars

\* ------------------------------------------------ evaluators run on their own
\* Stored values of a checkpoint column: NULL, the empty string, a text.
FieldValues == {Null, "", "kitchen"}

\* Journey rows of any content (every combination of column values).
JourneyStates ==
    [ id : {1},
      current_milestone : 1..3,
      status : {"in_progress", "completed", "abandoned"},
      room : FieldValues,
      renovation_purpose : FieldValues,
      milestone1_completed : BOOLEAN,
      milestone1_completed_at : {Nil, <<0>>},
      budget_range : FieldValues,
      timeline : FieldValues,
      milestone2_completed : BOOLEAN,
      milestone2_completed_at : {Nil, <<0>>},
      style_preference : FieldValues,
      priority_feature : FieldValues,
      milestone3_completed : BOOLEAN,
      milestone3_completed_at : {Nil, <<0>>},
      updated_at : {0} ]

InitEval ==
    /\ journey \in JourneyStates
    /\ pc = "eval"
    /\ message = Null
    /\ ncalls = 0
    /\ clock = 1
    /\ changed = {}
    /\ last_call = NoCall
    /\ \E v \in {"all", "current"} :
          evalrun = [variant |-> v, runs |-> 0, first |-> journey]
    /\ InitOthers

\* One run of the evaluator `run` on the stored journey, at a later time
\* than the run before it; the journey after the first run is remembered.
RunEvaluator(variant, after) ==
    /\ pc = "eval"
    /\ evalrun.variant = variant
    /\ evalrun.runs < 2
    /\ journey' = after
    /\ clock' = clock + 1
    /\ evalrun' = [variant |-> variant,
                   runs |-> evalrun.runs + 1,
                   first |-> IF evalrun.runs = 0 THEN after
                             ELSE evalrun.first]
    /\ UNCHANGED <<pc, message, ncalls, changed, last_call>>
    /\ UNCHANGED <<turnvars, promptvars, sessvars, returned, tasks>>

\* update_milestone(journey, db)
RunUpdateMilestone ==
    RunEvaluator("all", update_milestone(journey, clock))

\* JourneyHandler._check_milestone_completion(journey)
RunCheckMilestoneCompletion ==
    RunEvaluator("current", _check_milestone_completion(journey, clock))

NextEval == RunUpdateMilestone \/ RunCheckMilestoneCompletion

SpecEval == InitEval /\ [][NextEval]_vars

\* ------------------------------------------- prompt selector run on its own
\* Journey rows of any content, current_milestone inside and outside 1..3.
PromptJourneyStates ==
    [ id : {1},
      current_milestone : 0..4,
      status : {"in_progress", "completed", "abandoned"},
      room : FieldValues,
      renovation_purpose : FieldValues,
      milestone1_completed : BOOLEAN,
      milestone1_completed_at : {Nil},
      budget_range : FieldValues,
      timeline : FieldValues,
      milestone2_completed : BOOLEAN,
      milestone2_completed_at : {Nil},
      style_preference : FieldValues,
      priority_feature : FieldValues,
      milestone3_completed : BOOLEAN,
      milestone3_completed_at : {Nil},
      updated_at : {0} ]

InitPrompt ==
    /\ journey \in PromptJourneyStates
    /\ pc = "select"
    /\ message = Null
    /\ ncalls = 0
    /\ clock = 0
    /\ changed = {}
    /\ last_call = NoCall
    /\ evalrun = NoEval
    /\ InitOthers

\* The selection made by process_message after the Sentinel phase:
\* get_prompt_for_journey(journey, context, completed_checkpoints) with the
\* completed checkpoints of the journey's current milestone.
SelectPrompt ==
    /\ pc = "select"
    /\ context' = _build_context(journey)
    /\ prompt' = get_prompt_for_journey(journey,
                                        _get_completed_checkpoints(journey))
    /\ UNCHANGED input_data
    /\ pc' = "selected"
    /\ UNCHANGED <<journey, message, ncalls, clock, changed, last_call,
                   evalrun, turnvars, sessvars,
                   returned, tasks>>

NextPrompt == SelectPrompt

SpecPrompt == InitPrompt /\ [][NextPrompt]_vars

\* ------------------------------------------- the chat turn with its failures
\* Number of chat turns explored from a starting state of the turn model.
MaxChatTurns == 1
\* Number of store calls that raise SQLAlchemyError during one turn.
MaxFaults == 1

\* The users table holds user 1; the journeys table holds the journey (id 1).
Users == {1}

\* user_id and journey_id of a request: an id that resolves and one that
\* does not.
UserIds == {1, 2}
JourneyIds == {1, 2}

\* Text of the model's reply in response generation; Null is a response
\* without text content.
ResponseTexts == {Null, "Tell me more about your project."}

\* Function calls the Sentinel's model may produce in the turn model.
TurnCalls ==
    { [journey_id |-> 1, checkpoint_name |-> "room", value |-> "Kitchen"],
      [journey_id |-> 1, checkpoint_name |-> "renovation_purpose",
       value |-> "fix the leaks"],
      [journey_id |-> Absent, checkpoint_name |-> "room",
       value |-> "bathroom"],
      [journey_id |-> 0, checkpoint_name |-> "room", value |-> "Kitchen"],
      [journey_id |-> 1, checkpoint_name |-> Null, value |-> "Kitchen"],
      [journey_id |-> 1, checkpoint_name |-> "room", value |-> Null],
      [journey_id |-> 1, checkpoint_name |-> "status", value |-> "Kitchen"] }

\* MessageCreate(...) followed by crud.create_message: the stored row.
MessageRow(user_id, journey_id, speaker, content, current_milestone) ==
    [ user_id |-> user_id, journey_id |-> journey_id, speaker |-> speaker,
      content |-> content, current_milestone |-> current_milestone ]

\* The dictionary process_message returns after a response was produced
\* (the sentinel_result entry, a journey object, is left out).
OkResult(response_text, j) ==
    [ error |-> Null,
      response_text |-> response_text,
      journey_state |->
        << [ milestone |-> j.current_milestone,
             completed_checkpoints |-> _get_completed_checkpoints(j),
             status |-> j.status ] >> ]

\* The dictionary returned by the handler of SQLAlchemyError.
DbErrorResult ==
    [ error |-> "SQLAlchemyError",
      response_text |-> "Sorry, there was a database error. Please try again.",
      journey_state |-> <<>> ]

\* The dictionary returned when a lookup finds nothing.
NotFoundResult(what, id) ==
    [ error |-> what \o " " \o ToString(id) \o " not found",
      response_text |-> Null,
      journey_state |-> <<>> ]

\* Bookkeeping of a turn that starts in the current state.  faults counts
\* the store calls that raise on their own.  session_invalid: a flush or a
\* COMMIT of the turn's Session raised; the Session is never rolled back
\* (get_db only closes it), so it refuses every later statement of the turn
\* with an SQLAlchemyError.  analyze_raised: the handler of the try block
\* of Sentinel.analyze has been entered.
NewTurn(user_id, journey_id) ==
    [ before |-> journey, log_before |-> messages, user_id |-> user_id,
      journey_id |-> journey_id, store_error |-> FALSE,
      sentinel_error |-> "none", call_result |-> "none",
      response_failed |-> FALSE, fallback |-> FALSE, llm_calls |-> 0,
      faults |-> 0, session_invalid |-> FALSE, analyze_raised |-> FALSE ]

\* Variables the turn model leaves alone.
turnframe ==
    <<changed, evalrun, promptvars, users, journeys, returned, tasks>>

\* Starting states of the turn model: a journey just created, with an empty
\* message log; a journey after one exchange in which the Sentinel stored
\* the room as the model proposed it; and a journey after one exchange in
\* which the Sentinel stored the room and the purpose, so that
\* update_milestone moved it to milestone 2 between the user message,
\* tagged 1, and the assistant message, tagged 2.
TurnStarts ==
    { [ journey |-> NewJourney(0), messages |-> <<>> ],
      [ journey |->
            function_handlers(
                NewJourney(0),
                [journey_id |-> 1, checkpoint_name |-> "room",
                 value |-> "Kitchen"], 0).journey,
        messages |->
            << MessageRow(1, 1, "user", "Hello there", 1),
               MessageRow(1, 1, "assistant",
                          "Tell me more about your project.", 1) >> ],
      [ journey |->
            function_handlers(
                function_handlers(
                    NewJourney(0),
                    [journey_id |-> 1, checkpoint_name |-> "room",
                     value |-> "Kitchen"], 0).journey,
                [journey_id |-> 1, checkpoint_name |-> "renovation_purpose",
                 value |-> "fix the leaks"], 0).journey,
        messages |->
            << MessageRow(1, 1, "user", "Hello there", 1),
               MessageRow(1, 1, "assistant",
                          "Tell me more about your project.", 2) >> ] }

InitTurn ==
    /\ \E start \in TurnStarts :
          /\ journey = start.journey
          /\ messages = start.messages
    /\ pc = "idle"
    /\ message = Null
    /\ ncalls = 0
    /\ clock = 0
    /\ changed = {}
    /\ last_call = NoCall
    /\ evalrun = NoEval
    /\ result = NoResult
    /\ turn = NoTurn
    /\ prompt = Null
    /\ context = EmptyData
    /\ input_data = <<>>
    /\ returned = Null
    /\ tasks = <<>>
    /\ users = {}
    /\ journeys = <<>>

\* A lookup that stores the user message before it checks the lookups.
TurnLookupFails_persisting(user_id, journey_id, msg) ==
    /\ pc = "idle"
    /\ clock < MaxChatTurns
    /\ user_id \notin Users \/ journey_id # journey.id
    /\ clock' = clock + 1
    /\ turn' = NewTurn(user_id, journey_id)
    /\ message' = msg
    /\ messages' = Append(messages,
            MessageRow(user_id, journey_id, "user", msg,
                       journey.current_milestone))
    /\ result' = IF user_id \notin Users
                 THEN NotFoundResult("User", user_id)
                 ELSE NotFoundResult("Journey", journey_id)
    /\ UNCHANGED <<journey, pc, ncalls, last_call, turnframe>>

\* process_message, lines 86-95: get_user or get_journey finds nothing and
\* the turn returns {"error": ...}.
TurnLookupFails(user_id, journey_id, msg) ==
    /\ pc = "idle"
    /\ clock < MaxChatTurns
    /\ user_id \notin Users \/ journey_id # journey.id
    /\ clock' = clock + 1
    /\ turn' = NewTurn(user_id, journey_id)
    /\ message' = msg
    /\ result' = IF user_id \notin Users
                 THEN NotFoundResult("User", user_id)
                 ELSE NotFoundResult("Journey", journey_id)
    /\ UNCHANGED <<journey, pc, ncalls, last_call, messages, turnframe>>

\* A turn start that tags the user message with milestone 1 whatever the
\* journey's current milestone.
TurnStart_first_tag(user_id, journey_id, msg) ==
    /\ pc = "idle"
    /\ clock < MaxChatTurns
    /\ user_id \in Users /\ journey_id = journey.id
    /\ clock' = clock + 1
    /\ turn' = NewTurn(user_id, journey_id)
    /\ message' = msg
    /\ messages' = Append(messages,
            MessageRow(user_id, journey_id, "user", msg, 1))
    /\ result' = NoResult
    /\ pc' = "extract"
    /\ ncalls' = 0
    /\ last_call' = NoCall
    /\ UNCHANGED <<journey, turnframe>>

\* A turn start that enters the extraction without storing the user message.
TurnStart_unsaved(user_id, journey_id, msg) ==
    /\ pc = "idle"
    /\ clock < MaxChatTurns
    /\ user_id \in Users /\ journey_id = journey.id
    /\ clock' = clock + 1
    /\ turn' = NewTurn(user_id, journey_id)
    /\ message' = msg
    /\ result' = NoResult
    /\ pc' = "extract"
    /\ ncalls' = 0
    /\ last_call' = NoCall
    /\ UNCHANGED <<journey, messages, turnframe>>

\* process_message, lines 86-107: both lookups succeed and the user message
\* is stored with the journey's current milestone.
TurnStart(user_id, journey_id, msg) ==
    /\ pc = "idle"
    /\ clock < MaxChatTurns
    /\ user_id \in Users /\ journey_id = journey.id
    /\ clock' = clock + 1
    /\ turn' = NewTurn(user_id, journey_id)
    /\ message' = msg
    /\ messages' = Append(messages,
            MessageRow(user_id, journey_id, "user", msg,
                       journey.current_milestone))
    /\ result' = NoResult
    /\ pc' = "extract"
    /\ ncalls' = 0
    /\ last_call' = NoCall
    /\ UNCHANGED <<journey, turnframe>>

\* process_message, lines 86-107 and 271-278: a store call of the first
\* steps raises and the turn returns the database error.  "lookup":
\* get_user, get_journey or the commit of create_message (crud.py 274)
\* raises; nothing is stored.  "message_stored": both lookups succeeded, the
\* user message is committed and the refresh of create_message (crud.py
\* 275) raises.
TurnStartStoreError(user_id, journey_id, msg, stage) ==
    /\ pc = "idle"
    /\ clock < MaxChatTurns
    /\ \/ /\ stage = "lookup"
          /\ messages' = messages
       \/ /\ stage = "message_stored"
          /\ user_id \in Users /\ journey_id = journey.id
          /\ messages' = Append(messages,
                  MessageRow(user_id, journey_id, "user", msg,
                             journey.current_milestone))
    /\ clock' = clock + 1
    /\ turn' = [NewTurn(user_id, journey_id) EXCEPT
                    !.store_error = TRUE, !.faults = 1]
    /\ message' = msg
    /\ result' = DbErrorResult
    /\ UNCHANGED <<journey, pc, ncalls, last_call, turnframe>>

\* process_message, lines 111-116, 122-130 and 271-278: a store call made by
\* process_message itself before or after Sentinel.analyze raises, or the
\* commit of Sentinel.analyze (line 120) raises and the commit of line 127
\* is refused after it.  When a commit inside the tool handler has raised,
\* the commit of line 120 is refused, then the reload of the journey in the
\* handler of analyze (line 141) or the commit of line 127.
TurnStoreError ==
    /\ pc \in {"extract", "analyzed"}
    /\ turn.session_invalid \/ turn.faults < MaxFaults
    /\ turn' = [turn EXCEPT !.store_error = TRUE,
                            !.faults = IF turn.session_invalid THEN @
                                       ELSE @ + 1]
    /\ result' = DbErrorResult
    /\ pc' = "idle"
    /\ UNCHANGED <<journey, message, ncalls, clock, last_call, messages,
                   turnframe>>

\* Sentinel.analyze, lines 104-109 with call_function: the model's response
\* arrives.
SentinelRequest ==
    /\ pc = "extract"
    /\ pc' = "calls"
    /\ turn' = [turn EXCEPT !.llm_calls = @ + 1]
    /\ UNCHANGED <<journey, message, ncalls, clock, last_call, messages,
                   result, turnframe>>

\* Sentinel.analyze, lines 114-117: the first request raises; the error is
\* logged and the analysis goes on to its commit.
SentinelRequestFails ==
    /\ pc = "extract"
    /\ pc' = "analyzed"
    /\ turn' = [turn EXCEPT !.llm_calls = @ + 1, !.sentinel_error = "request"]
    /\ UNCHANGED <<journey, message, ncalls, clock, last_call, messages,
                   result, turnframe>>

\* handle_function_call_response, lines 102-133: the handler runs on the
\* arguments of one function call and its result is collected.
HandleCall(call) ==
    /\ pc = "calls"
    /\ ncalls < MaxCalls
    /\ ~turn.session_invalid
    /\ LET r == function_handlers(journey, call, clock)
       IN  /\ journey' = r.journey
           /\ turn' = [turn EXCEPT !.call_result = r.result]
    /\ ncalls' = ncalls + 1
    /\ last_call' = call
    /\ UNCHANGED <<pc, message, clock, messages, result, turnframe>>

\* handle_function_call_response, lines 117-124: the arguments of a function
\* call are not valid JSON; an error output is collected and the loop goes on.
HandleCallParseError ==
    /\ pc = "calls"
    /\ ncalls < MaxCalls
    /\ ncalls' = ncalls + 1
    /\ last_call' = NoCall
    /\ turn' = [turn EXCEPT !.call_result = "unparsed",
                            !.sentinel_error = "parse"]
    /\ UNCHANGED <<journey, pc, message, clock, messages, result, turnframe>>

\* update_journey, lines 80-141, on a Session that refuses every statement:
\* a call that passes the validation of lines 82-102 raises in get_journey
\* (line 109), any other call is rejected by the validation; both return an
\* error object and write nothing.
HandleCallSessionInvalid(call) ==
    /\ pc = "calls"
    /\ ncalls < MaxCalls
    /\ turn.session_invalid
    /\ ncalls' = ncalls + 1
    /\ last_call' = call
    /\ turn' = [turn EXCEPT !.call_result = "error"]
    /\ UNCHANGED <<journey, pc, message, clock, messages, result, turnframe>>

\* update_journey, lines 107-141: a store call of the tool handler raises and
\* the handler returns {"error": str(e)}.  What is stored by then depends on
\* the statement that raised:
\*   "lookup": get_journey (line 109), or the get_journey or the commit of
\*       the first crud.update_journey (crud.py 211, 228); nothing is written;
\*   "checkpoint": the refresh that follows that commit (crud.py 229), the
\*       commit of line 121, the reload of the journey that update_milestone
\*       reads (line 175), or the get_journey or the commit of the
\*       crud.update_journey of update_milestone (line 217); the checkpoint
\*       is written and the milestone fields are not;
\*   "milestone": the refresh that follows the commit of update_milestone's
\*       crud.update_journey; the checkpoint and the milestone fields are
\*       written.
\* kind "read": a query, a refresh or a reload raised and the Session stays
\* usable; kind "write": a commit raised (its flush or its COMMIT) and the
\* Session refuses every later statement.
HandleCallStoreError(call, stage, kind) ==
    /\ pc = "calls"
    /\ ncalls < MaxCalls
    /\ turn.faults < MaxFaults
    /\ ~turn.session_invalid
    /\ kind \in {"read", "write"}
    /\ stage = "milestone" => kind = "read"
    /\ LET journey_id == IF call.journey_id = Absent THEN journey.id
                         ELSE call.journey_id
           written == crud_update_journey(
                          journey, (call.checkpoint_name :> call.value), clock)
       IN  /\ journey_id # 0
           /\ Truthy(call.checkpoint_name) /\ Truthy(call.value)
           /\ call.checkpoint_name \in CheckpointNames
           /\ \/ /\ stage = "lookup"
                 /\ journey' = journey
              \/ /\ stage = "checkpoint"
                 /\ journey_id = journey.id
                 /\ journey' = written
              \/ /\ stage = "milestone"
                 /\ journey_id = journey.id
                 /\ update_milestone(written, clock) # written
                 /\ journey' = update_milestone(written, clock)
    /\ ncalls' = ncalls + 1
    /\ last_call' = call
    /\ turn' = [turn EXCEPT !.call_result = "error", !.store_error = TRUE,
                            !.faults = @ + 1,
                            !.session_invalid = (kind = "write")]
    /\ UNCHANGED <<pc, message, clock, messages, result, turnframe>>

\* handle_function_call_response, lines 95-98: the response holds no
\* function call and is returned as it is.
NoFunctionCalls ==
    /\ pc = "calls"
    /\ ncalls = 0
    /\ pc' = "analyzed"
    /\ UNCHANGED <<journey, message, ncalls, clock, last_call, messages,
                   result, turn, turnframe>>

\* handle_function_call_response, lines 140-148: the collected outputs are
\* submitted to the model.
SubmitResults ==
    /\ pc = "calls"
    /\ ncalls > 0
    /\ pc' = "analyzed"
    /\ turn' = [turn EXCEPT !.llm_calls = @ + 1, !.call_result = "none"]
    /\ ncalls' = 0
    /\ last_call' = NoCall
    /\ UNCHANGED <<journey, message, clock, messages, result, turnframe>>

\* The same submission raises; Sentinel.analyze, lines 114-117, logs the
\* error and goes on to its commit.
SubmitResultsFails ==
    /\ pc = "calls"
    /\ ncalls > 0
    /\ pc' = "analyzed"
    /\ turn' = [turn EXCEPT !.llm_calls = @ + 1, !.sentinel_error = "submit",
                            !.call_result = "none"]
    /\ ncalls' = 0
    /\ last_call' = NoCall
    /\ UNCHANGED <<journey, message, clock, messages, result, turnframe>>

\* Sentinel.analyze, lines 119-137, then process_message, lines 127-138: the
\* commits and the re-reads of the journey succeed.
AnalyzeReturns ==
    /\ pc = "analyzed"
    /\ ~turn.session_invalid
    /\ pc' = "respond"
    /\ UNCHANGED <<journey, message, ncalls, clock, last_call, messages,
                   result, turn, turnframe>>

\* Sentinel.analyze, lines 74-149: a read of analyze itself raises and the
\* handler of its try block logs the error and returns the journey object;
\* process_message goes on with line 122.  At "extract" it is the reload of
\* the journey that line 76 reads (create_message's commit expired it): the
\* model is never called.  At "analyzed" it is the get_journey of line 123.
\* (A commit of analyze that raises ends the turn, and so does a store call
\* that raises inside the handler of lines 139-149: TurnStoreError.)
AnalyzeStoreError ==
    /\ pc \in {"extract", "analyzed"}
    /\ turn.faults < MaxFaults
    /\ ~turn.session_invalid
    /\ ~turn.analyze_raised
    /\ pc' = "analyzed"
    /\ turn' = [turn EXCEPT !.store_error = TRUE, !.faults = @ + 1,
                            !.analyze_raised = TRUE]
    /\ UNCHANGED <<journey, message, ncalls, clock, last_call, messages,
                   result, turnframe>>

\* A success path that returns the reply without storing it.
RespondWithModel_unsaved(text) ==
    /\ pc = "respond"
    /\ LET response_text ==
               IF Truthy(text) THEN text
               ELSE "I'm sorry, I couldn't generate a response."
       IN  result' = OkResult(response_text, journey)
    /\ turn' = [turn EXCEPT !.llm_calls = @ + 1]
    /\ pc' = "idle"
    /\ UNCHANGED <<journey, message, ncalls, clock, last_call, messages,
                   turnframe>>

\* process_message, lines 140-224: the model answers (with a text, or with
\* no text content and the apology is used), the assistant message is
\* stored with the journey's milestone, the result is returned.
RespondWithModel(text) ==
    /\ pc = "respond"
    /\ LET response_text ==
               IF Truthy(text) THEN text
               ELSE "I'm sorry, I couldn't generate a response."
       IN  /\ messages' = Append(messages,
                   MessageRow(turn.user_id, turn.journey_id, "assistant",
                              response_text, journey.current_milestone))
           /\ result' = OkResult(response_text, journey)
    /\ turn' = [turn EXCEPT !.llm_calls = @ + 1]
    /\ pc' = "idle"
    /\ UNCHANGED <<journey, message, ncalls, clock, last_call, turnframe>>

\* The apology used when the model's response holds no text content
\* (process_message, lines 185-200).
ReplyText(text) ==
    IF Truthy(text) THEN text
    ELSE "I'm sorry, I couldn't generate a response."

\* The message log when the fallback branch is entered: for the cause
\* "reply_stored" the model's reply was committed before the exception.
FallbackLog(cause, text) ==
    IF cause = "reply_stored"
    THEN Append(messages,
             MessageRow(turn.user_id, turn.journey_id, "assistant",
                        ReplyText(text), journey.current_milestone))
    ELSE messages

\* The bookkeeping of a turn that entered the fallback branch for the cause
\* and met store_faults further store faults inside the branch.
FallbackTurn(cause, store_faults) ==
    [turn EXCEPT
        !.fallback = TRUE,
        !.response_failed = (cause = "llm"),
        !.llm_calls = IF cause = "messages" THEN @ ELSE @ + 1,
        !.store_error = (@ \/ cause # "llm" \/ store_faults > 0),
        !.faults = @ + (IF cause = "llm" THEN 0 ELSE 1) + store_faults]

\* The fallback branch of process_message, lines 226-269, entered for the
\* given cause: the keyword extractor runs, the template response is stored
\* as the assistant message and returned.
FallbackBranch(cause, text) ==
    LET updated_journey ==
            _analyze_message_for_checkpoints(journey, message, clock)
        fallback_response == _generate_response(updated_journey, message)
    IN  /\ journey' = updated_journey
        /\ messages' = Append(FallbackLog(cause, text),
                MessageRow(turn.user_id, turn.journey_id, "assistant",
                           fallback_response,
                           updated_journey.current_milestone))
        /\ result' = OkResult(fallback_response, updated_journey)
        /\ turn' = FallbackTurn(cause, 0)
        /\ pc' = "idle"
        /\ UNCHANGED <<message, ncalls, clock, last_call, turnframe>>

\* process_message, lines 180-182 and 226: the response-generation call
\* raises.
RespondFails ==
    /\ pc = "respond"
    /\ FallbackBranch("llm", Null)

\* process_message, lines 142-147 or 202-224, and 226: a read inside the
\* inner try raises, `except Exception` takes it and the fallback branch
\* runs to its end.  "messages": get_journey_messages raises before the
\* model is called.  "reply_stored": the reply is committed and the refresh
\* of create_message (crud.py 275) or the reload of the journey read at line
\* 219 raises; the fallback stores a second assistant message after the
\* reply.
RespondStoreErrorFallsBack(cause, text) ==
    /\ pc = "respond"
    /\ cause \in {"messages", "reply_stored"}
    /\ turn.faults < MaxFaults
    /\ FallbackBranch(cause, text)

\* process_message, lines 235-257 and 271-278: the fallback branch was
\* entered for the cause and a store call of the branch raises; the turn
\* returns the database error.  Cause "assistant": the model answered and
\* the commit of create_message (line 210, crud.py 274) raised; the reply is
\* not stored and the Session refuses the first statement of the branch.
\* stage "reload": the journey, expired by the
\* commit of create_message, cannot be reloaded when the extractor reads it;
\* stage "update": the crud.update_journey of the extractor raises; stage
\* "evaluate": a later store call of the extractor raises after the keyword
\* values were written; stage "message": the commit of create_message raises
\* after the extractor returned; stage "message_stored": the fallback
\* response is committed and the refresh of create_message (crud.py 275)
\* raises.
FallbackStoreError(cause, text, stage) ==
    /\ pc = "respond"
    /\ cause \in {"llm", "messages", "assistant", "reply_stored"}
    /\ turn.faults + (IF cause \in {"llm", "assistant"} THEN 0 ELSE 1)
            < MaxFaults
    /\ cause = "assistant" => stage = "reload"
    /\ LET update_data == fallback_update_data(journey, message)
           updated_journey ==
               _analyze_message_for_checkpoints(journey, message, clock)
           log == FallbackLog(cause, text)
       IN  \/ /\ stage = "reload"
              /\ cause \in {"assistant", "reply_stored"}
              /\ journey' = journey
              /\ messages' = log
           \/ /\ stage = "update"
              /\ DOMAIN update_data # {}
              /\ journey' = journey
              /\ messages' = log
           \/ /\ stage = "evaluate"
              /\ DOMAIN update_data # {}
              /\ journey' = crud_update_journey(journey, update_data, clock)
              /\ messages' = log
           \/ /\ stage = "message"
              /\ journey' = updated_journey
              /\ messages' = log
           \/ /\ stage = "message_stored"
              /\ journey' = updated_journey
              /\ messages' = Append(log,
                      MessageRow(turn.user_id, turn.journey_id, "assistant",
                                 _generate_response(updated_journey, message),
                                 updated_journey.current_milestone))
    /\ turn' = FallbackTurn(cause, IF cause = "assistant" THEN 0 ELSE 1)
    /\ result' = DbErrorResult
    /\ pc' = "idle"
    /\ UNCHANGED <<message, ncalls, clock, last_call, turnframe>>

\* The replies of the model that tell the fallback branches apart: the text
\* of the reply shows in the log only when the reply was stored.
ReplyTexts(cause) ==
    IF cause = "reply_stored" THEN ResponseTexts ELSE {Null}

NextTurn ==
    \/ \E u \in UserIds, i \in JourneyIds, msg \in Messages :
            TurnLookupFails(u, i, msg)
    \/ \E u \in UserIds, i \in JourneyIds, msg \in Messages :
            TurnStart(u, i, msg)
    \/ \E u \in UserIds, i \in JourneyIds, msg \in Messages :
        \E stage \in {"lookup", "message_stored"} :
            TurnStartStoreError(u, i, msg, stage)
    \/ TurnStoreError
    \/ SentinelRequest
    \/ SentinelRequestFails
    \/ \E call \in TurnCalls : HandleCall(call)
    \/ HandleCallParseError
    \/ \E call \in TurnCalls : HandleCallSessionInvalid(call)
    \/ \E call \in TurnCalls :
        \E stage \in {"lookup", "checkpoint", "milestone"} :
          \E kind \in {"read", "write"} :
            HandleCallStoreError(call, stage, kind)
    \/ NoFunctionCalls
    \/ SubmitResults
    \/ SubmitResultsFails
    \/ AnalyzeReturns
    \/ AnalyzeStoreError
    \/ \E text \in ResponseTexts : RespondWithModel(text)
    \/ RespondFails
    \/ \E cause \in {"messages", "reply_stored"} :
        \E text \in ReplyTexts(cause) :
            RespondStoreErrorFallsBack(cause, text)
    \/ \E cause \in {"llm", "messages", "assistant", "reply_stored"} :
        \E text \in ReplyTexts(cause) :
          \E stage \in {"reload", "update", "evaluate", "message",
                         "message_stored"} :
            FallbackStoreError(cause, text, stage)

SpecTurn == InitTurn /\ [][NextTurn]_vars

\* ------------------------------------------ a chat request as a coroutine
\* POST /messages (routers.messages.send_message) awaits
\* JourneyHandler.process_message, a coroutine with a store session of its
\* own (get_db).  The coroutine gives way to the event loop at its awaited
\* model calls: the Sentinel's request (responses_function.call_function),
\* the submission of the tool results when the Sentinel's response holds
\* function calls (handle_function_call_response, line 141), and the
\* response request (handler.py, line 180).  Between two awaits it runs
\* alone; while it waits, other requests are served.  The tables are
\* `users`, `journeys` (journeys[k] is the row with id k and its owner) and
\* `messages`; tasks[p] is the request in slot p.

\* The number of requests that can be in flight together.
MaxRequests == 2
RequestIds == 1..MaxRequests

\* A slot with no request.  `seen` is the journey object in the identity map
\* of the request's session: loaded by a query or a refresh, expired by the
\* session's own commits and loaded again at the next read; what other
\* sessions commit in between does not reach it.  The session and the
\* locals are gone when the request has ended: its slot is marked "done",
\* and `result` holds what the request that ended last returned.
IdleRequest ==
    [ pc |-> "idle", user_id |-> 0, journey_id |-> 0, message |-> Null,
      seen |-> NewJourney(0) ]

InFlight(task) == task.pc \notin {"idle", "done"}

\* The slot of a request that has ended.
Ended == [IdleRequest EXCEPT !.pc = "done"]

\* crud.get_journey finds a row: journeys[k] with owner 0 stands for an id
\* below the highest one whose row was deleted.
JourneyExists(js, journey_id) ==
    journey_id \in 1..Len(js) /\ js[journey_id].user_id # 0

\* process_message raises an exception that is no SQLAlchemyError: it
\* returns nothing, and send_message answers with status 500 (lines
\* 216-225).  `result` names the exception.
RaisedResult ==
    [ error |-> "AttributeError", response_text |-> Null,
      journey_state |-> <<>> ]

\* Slot p is the first one without a request in flight.
FirstFree(p) ==
    /\ ~InFlight(tasks[p])
    /\ \A q \in RequestIds : q < p => InFlight(tasks[q])

\* Variables the steps of a chat request leave alone (the clock is left to
\* the model that takes the step).
chatframe ==
    <<journey, pc, message, ncalls, changed, last_call, evalrun, turn,
      prompt, context, users, returned>>

\* crud.update_journey, lines 211-230, in a session whose journey object is
\* `seen` while the stored row is `row`: setattr marks a column as changed
\* when the value differs from the one the session holds, the commit writes
\* the changed columns and the timestamp to the row, and the refresh reads
\* the row back.
crud_update_journey_in_session(seen, row, journey_data, now) ==
    [k \in DOMAIN row |->
        IF k = "updated_at" THEN now
        ELSE IF k \in DOMAIN journey_data /\ seen[k] # journey_data[k]
            THEN journey_data[k]
        ELSE row[k]]

\* An update_journey tool that stores the value and never runs
\* update_milestone.
update_journey_in_session_no_milestone(seen, j, journey_id, checkpoint_name, value, now) ==
    IF journey_id = 0
        THEN [journey |-> j, result |-> "error"]
    ELSE IF ~Truthy(checkpoint_name) \/ ~Truthy(value)
        THEN [journey |-> j, result |-> "error"]
    ELSE IF checkpoint_name \notin CheckpointNames
        THEN [journey |-> j, result |-> "error"]
    ELSE IF journey_id # j.id
        THEN [journey |-> j, result |-> "error"]
    ELSE [journey |->
            crud_update_journey_in_session(
                seen, j, (checkpoint_name :> value), now),
          result |-> "success"]

\* sentinel_functions.update_journey, lines 80-141, in such a session: the
\* value is written through the session's journey object, and
\* update_milestone runs on the row read back after the commits.
update_journey_in_session(seen, j, journey_id, checkpoint_name, value, now) ==
    IF journey_id = 0
        THEN [journey |-> j, result |-> "error"]
    ELSE IF ~Truthy(checkpoint_name) \/ ~Truthy(value)
        THEN [journey |-> j, result |-> "error"]
    ELSE IF checkpoint_name \notin CheckpointNames
        THEN [journey |-> j, result |-> "error"]
    ELSE IF journey_id # j.id
        THEN [journey |-> j, result |-> "error"]
    ELSE CHOOSE r \in
            { [journey |-> update_milestone(stored, now),
               result |-> "success"] :
                stored \in {crud_update_journey_in_session(
                               seen, j, (checkpoint_name :> value), now)} } :
            TRUE

\* _analyze_message_for_checkpoints, lines 363-468, in such a session: the
\* keyword tests read `seen`; with something extracted the columns are
\* written, the evaluator runs on the row read back and the row is read
\* again; with nothing extracted the object `seen` is returned as it is.
\* Gives the stored row afterwards and the journey object returned.
_analyze_message_for_checkpoints_in_session(seen, row, msg, now) ==
    CHOOSE r \in
        { IF DOMAIN update_data # {}
          THEN CHOOSE both \in
                  { [journey |-> stored, returned |-> stored] :
                      stored \in {_check_milestone_completion(
                                     crud_update_journey_in_session(
                                         seen, row, update_data, now), now)} } :
                  TRUE
          ELSE [journey |-> row, returned |-> seen] :
            update_data \in {fallback_update_data(seen, msg)} } : TRUE

\* The journeys table after the tool handler of the request `task` ran the
\* function call: the handler registered in Sentinel.analyze (lines 90-97)
\* runs update_journey on the row the call names, the request's own journey
\* when the call has no journey_id.  The request's own journey is written
\* through the object its session holds; another journey is loaded by the
\* handler.  A call for a row that does not exist leaves the table as it is.
SentinelPhase(js, task, call, now) ==
    LET target == IF call.journey_id = Absent THEN task.journey_id
                  ELSE call.journey_id
    IN  IF ~JourneyExists(js, target) THEN js
        ELSE [js EXCEPT ![target].row =
                 update_journey_in_session(
                     IF target = task.journey_id THEN task.seen
                     ELSE js[target].row,
                     js[target].row, target, call.checkpoint_name,
                     call.value, now).journey]

\* crud.get_journey_messages: the rows of the journey ordered by timestamp,
\* newest first when `descending`, cut to the first `limit` rows.  The log
\* is kept in timestamp order.
get_journey_messages(log, journey_id, limit, descending) ==
    LET rows == SelectSeq(log, LAMBDA m : m.journey_id = journey_id)
        n == Len(rows)
        k == IF limit < n THEN limit ELSE n
    IN  [i \in 1..k |-> IF descending THEN rows[n + 1 - i] ELSE rows[i]]

\* process_message, lines 140-182: the list handed to the response call.
\* The ten newest rows of the journey are read newest first and reversed,
\* the system prompt selected for the journey goes in front of them, and a
\* user entry with the text of the turn is appended.
ResponseInput(log, j, message_text) ==
    LET newest == get_journey_messages(log, j.id, 10, TRUE)
        recent_messages ==
            [i \in 1..Len(newest) |-> newest[Len(newest) + 1 - i]]
        system_prompt ==
            get_prompt_for_journey(j, _get_completed_checkpoints(j))
    IN  << [role |-> "system", content |-> system_prompt] >>
        \o [i \in 1..Len(recent_messages) |->
              [role |-> IF recent_messages[i].speaker = "user"
                        THEN "user" ELSE "assistant",
               content |-> recent_messages[i].content]]
        \o << [role |-> "user", content |-> message_text] >>

\* process_message, lines 84-121, and Sentinel.analyze, lines 74-109, up to
\* the awaited request of the Sentinel: a request arrives in slot p.  A
\* user or a journey that is not found ends it with an error; otherwise the
\* user message is stored with the journey's milestone, and the journey,
\* expired by that commit, is loaded again when analyze reads it.
ChatTurnStart(p, user_id, journey_id, msg) ==
    /\ ~InFlight(tasks[p])
    /\ LET request == [IdleRequest EXCEPT !.user_id = user_id,
                                          !.journey_id = journey_id,
                                          !.message = msg]
       IN  IF user_id \notin users
           THEN /\ tasks' = [tasks EXCEPT ![p] = Ended]
                /\ result' = NotFoundResult("User", user_id)
                /\ UNCHANGED messages
           ELSE IF ~JourneyExists(journeys, journey_id)
           THEN /\ tasks' = [tasks EXCEPT ![p] = Ended]
                /\ result' = NotFoundResult("Journey", journey_id)
                /\ UNCHANGED messages
           ELSE /\ tasks' = [tasks EXCEPT ![p] =
                       [request EXCEPT
                           !.pc = "sentinel",
                           !.seen = journeys[journey_id].row]]
                /\ UNCHANGED result
                /\ messages' =
                       Append(messages,
                           MessageRow(user_id, journey_id, "user", msg,
                               journeys[journey_id].row.current_milestone))
    /\ UNCHANGED <<journeys, input_data, chatframe>>

\* handle_function_call_response, lines 95-141, with the tool handler
\* update_journey: the Sentinel's response arrives with a function call,
\* the handler runs, and the coroutine waits for the submission of the tool
\* result.  Every later read of the request's journey follows a commit, so
\* `seen` is shown as the stored row; when another request has deleted the
\* row, the object stays as it is until the next read.
ChatTurnSentinelCall(p, call, now) ==
    /\ tasks[p].pc = "sentinel"
    /\ call # NoCall
    /\ \E js \in {SentinelPhase(journeys, tasks[p], call, now)} :
          /\ journeys' = js
          /\ tasks' = [tasks EXCEPT ![p] =
                  [@ EXCEPT !.pc = "submit",
                            !.seen =
                                IF JourneyExists(js, tasks[p].journey_id)
                                THEN js[tasks[p].journey_id].row
                                ELSE @]]
    /\ UNCHANGED <<messages, result, input_data, chatframe>>

\* Sentinel.analyze, lines 119-149, and process_message, lines 122-180: the
\* request after the Sentinel phase.  The journey is read back after the
\* commits; the context, the completed checkpoints, the prompt and the input
\* of the response call are taken from it and from the stored messages.
\* `input_data` holds the input of the response call made last; the
\* completed checkpoints and the prompt are functions of the journey object
\* `seen`, which does not change while the request waits for the response.
\* When another request has deleted the journey meanwhile, the read after
\* the commit of analyze (line 123) raises ObjectDeletedError, the handler
\* of line 142 raises it again at its second log line, and process_message
\* returns the database error (lines 271-278).
ReadBack(p) ==
    IF JourneyExists(journeys, tasks[p].journey_id)
    THEN /\ tasks' = [tasks EXCEPT ![p] =
                 [@ EXCEPT !.pc = "respond",
                           !.seen = journeys[tasks[p].journey_id].row]]
         /\ input_data' = ResponseInput(messages,
                                        journeys[tasks[p].journey_id].row,
                                        tasks[p].message)
         /\ UNCHANGED <<journeys, messages, result, chatframe>>
    ELSE /\ tasks' = [tasks EXCEPT ![p] = Ended]
         /\ result' = DbErrorResult
         /\ UNCHANGED <<journeys, messages, input_data, chatframe>>

\* The Sentinel's request returns a response without function call, or
\* raises (Sentinel.analyze, lines 110-113): no handler runs and nothing is
\* submitted; the coroutine goes on to the awaited response request.
ChatTurnNoCall(p) ==
    /\ tasks[p].pc = "sentinel"
    /\ ReadBack(p)

\* The submission of the tool result returns or raises; the coroutine goes
\* on to the awaited response request.
ChatTurnSubmit(p) ==
    /\ tasks[p].pc = "submit"
    /\ ReadBack(p)

\* process_message, lines 184-224: the model answers.  The assistant
\* message is stored with the milestone of the session's journey object;
\* the result holds the completed checkpoints of line 155, taken from that
\* object, and the milestone and status of the journey loaded again after
\* the commit of create_message.  When another request has deleted the
\* journey meanwhile, the message is stored all the same (the store does not
\* enforce the foreign key), the load for the result raises
\* ObjectDeletedError, the fallback branch raises it again at its first read
\* of the journey, and process_message returns the database error.
ChatTurnRespond(p, text) ==
    /\ tasks[p].pc = "respond"
    /\ LET response_text == ReplyText(text)
       IN  /\ messages' =
                 Append(messages,
                     MessageRow(tasks[p].user_id, tasks[p].journey_id,
                                "assistant", response_text,
                                tasks[p].seen.current_milestone))
           /\ result' =
                 IF JourneyExists(journeys, tasks[p].journey_id)
                 THEN [ error |-> Null,
                        response_text |-> response_text,
                        journey_state |->
                          << [ milestone |->
                                 journeys[tasks[p].journey_id]
                                     .row.current_milestone,
                               completed_checkpoints |->
                                   _get_completed_checkpoints(tasks[p].seen),
                               status |->
                                 journeys[tasks[p].journey_id].row.status ] >> ]
                 ELSE DbErrorResult
           /\ tasks' = [tasks EXCEPT ![p] = Ended]
    /\ UNCHANGED <<journeys, input_data, chatframe>>

\* process_message, lines 226-269: the response request raises.  The
\* keyword extractor and the evaluator run in the request's session, the
\* template response is built from the journey object the extractor returns
\* and stored with its milestone; the result is taken from the journey
\* loaded again after the commit of create_message.  When another request
\* has deleted the journey meanwhile, the extractor reads the object the
\* session holds: with something extracted, crud.update_journey and
\* crud.get_journey find no row and _check_milestone_completion(None)
\* raises AttributeError; with nothing extracted the template response is
\* stored and the load for the result raises ObjectDeletedError, for which
\* process_message returns the database error.
ChatTurnRespondFails(p, now) ==
    /\ tasks[p].pc = "respond"
    /\ IF JourneyExists(journeys, tasks[p].journey_id)
       THEN \E r \in {_analyze_message_for_checkpoints_in_session(
                         tasks[p].seen, journeys[tasks[p].journey_id].row,
                         tasks[p].message, now)} :
            \E fallback_response \in
                   {_generate_response(r.returned, tasks[p].message)} :
               /\ journeys' = [journeys EXCEPT ![tasks[p].journey_id].row =
                                  r.journey]
               /\ messages' =
                      Append(messages,
                          MessageRow(tasks[p].user_id, tasks[p].journey_id,
                                     "assistant", fallback_response,
                                     r.returned.current_milestone))
               /\ result' = OkResult(fallback_response, r.journey)
       ELSE IF DOMAIN fallback_update_data(tasks[p].seen, tasks[p].message)
                  # {}
       THEN /\ result' = RaisedResult
            /\ UNCHANGED <<journeys, messages>>
       ELSE /\ messages' =
                   Append(messages,
                       MessageRow(tasks[p].user_id, tasks[p].journey_id,
                                  "assistant",
                                  _generate_response(tasks[p].seen,
                                                     tasks[p].message),
                                  tasks[p].seen.current_milestone))
            /\ result' = DbErrorResult
            /\ UNCHANGED journeys
    /\ tasks' = [tasks EXCEPT ![p] = Ended]
    /\ UNCHANGED <<input_data, chatframe>>

\* ------------------------------------------- the milestone-3 scenario
\* Two chat requests on a journey at milestone 3 whose first four
\* checkpoints are set.  Each runs process_message without store failure;
\* the Sentinel's response holds one update_journey call: for
\* style_preference in the request that arrives first, for priority_feature
\* in the second.  The second request may arrive while the first waits for
\* one of its model calls.

\* The checkpoint the Sentinel extracts in each turn of the scenario.
ScenarioCheckpoints == <<"style_preference", "priority_feature">>

\* Values the model proposes for the two checkpoints.
ScenarioValues ==
    [ style_preference |-> {"modern", "Clean Lines"},
      priority_feature |-> {"storage", "eco-friendly"} ]

\* Journeys at milestone 3 with room, renovation_purpose, budget_range and
\* timeline set.  The completion flags of milestones 1 and 2 are set when
\* the journey came here through chat turns and unset when its fields were
\* written through PUT /journeys/{id}, which takes current_milestone, status
\* and the six checkpoints and no flag.
ScenarioJourneys ==
    { [ NewJourney(0) EXCEPT
            !.current_milestone = 3,
            !.status = status,
            !.room = room,
            !.renovation_purpose = renovation_purpose,
            !.budget_range = budget_range,
            !.timeline = timeline,
            !.milestone1_completed = flag1,
            !.milestone1_completed_at = IF flag1 THEN <<0>> ELSE Nil,
            !.milestone2_completed = flag2,
            !.milestone2_completed_at = IF flag2 THEN <<0>> ELSE Nil ] :
        status \in {"in_progress", "abandoned"},
        room \in {"kitchen", "Master Bath"},
        renovation_purpose \in {"repair", "fix the leaks"},
        budget_range \in {"economy", "around 20k"},
        timeline \in {"quick", "by next summer"},
        flag1 \in BOOLEAN, flag2 \in BOOLEAN }

\* The requests of the scenario, in the order of their arrival.
ScenarioTaskIds == 1..Len(ScenarioCheckpoints)

\* User 1 with journey 1; the clock counts the requests that have ended.
InitScenario ==
    /\ users = {1}
    /\ \E j \in ScenarioJourneys : journeys = << [user_id |-> 1, row |-> j] >>
    /\ tasks = [p \in RequestIds |-> IdleRequest]
    /\ journey = NewJourney(0)
    /\ pc = "idle"
    /\ message = Null
    /\ ncalls = 0
    /\ clock = 0
    /\ changed = {}
    /\ last_call = NoCall
    /\ evalrun = NoEval
    /\ messages = <<>>
    /\ result = NoResult
    /\ turn = NoTurn
    /\ prompt = Null
    /\ context = EmptyData
    /\ input_data = <<>>
    /\ returned = Null

\* Request p arrives, after the requests before it.
ScenarioTurnStart(p, msg) ==
    /\ tasks[p].pc = "idle"
    /\ \A q \in ScenarioTaskIds : q < p => tasks[q].pc # "idle"
    /\ ChatTurnStart(p, 1, 1, msg)
    /\ UNCHANGED clock

\* The Sentinel's response of request p: the update_journey call for the
\* checkpoint of the request.
ScenarioSentinelCall(p, value) ==
    /\ value \in ScenarioValues[ScenarioCheckpoints[p]]
    /\ ChatTurnSentinelCall(
           p, [journey_id |-> 1, checkpoint_name |-> ScenarioCheckpoints[p],
               value |-> value], clock)
    /\ UNCHANGED clock

NextScenario ==
    \/ \E p \in ScenarioTaskIds, msg \in Messages : ScenarioTurnStart(p, msg)
    \/ \E p \in ScenarioTaskIds,
          value \in ScenarioValues.style_preference
                        \cup ScenarioValues.priority_feature :
            ScenarioSentinelCall(p, value)
    \/ \E p \in ScenarioTaskIds : ChatTurnSubmit(p) /\ UNCHANGED clock
    \/ \E p \in ScenarioTaskIds, text \in ResponseTexts :
            ChatTurnRespond(p, text) /\ clock' = clock + 1
    \/ \E p \in ScenarioTaskIds :
            ChatTurnRespondFails(p, clock) /\ clock' = clock + 1

SpecScenario == InitScenario /\ [][NextScenario]_vars

\* ------------------------------------------------- sessions and journeys
\* The users, journeys and messages tables under every request of the API
\* that writes one of them: POST /sessions, GET /sessions/{user_id},
\* POST /users, DELETE /users/{user_id}, POST /journeys, PUT /journeys/{id},
\* POST /journeys/{id}/checkpoints/{name}, POST /journeys/{id}/advance,
\* POST /journeys/{id}/complete, POST /messages/process and the chat turns
\* of POST /messages.  A user is shown by its id: PUT /users/{user_id}
\* writes the names only, and like the GET requests that write nothing it
\* has no action.  journeys[k] is the row with id k: its owner and its
\* fields.  Only a chat turn awaits, so every other handler runs as one
\* step; a chat turn runs as the steps of a chat request.  The clock counts
\* the requests that have arrived.
\*
\* A primary key is a SQLite rowid (schemas.py: Column(Integer,
\* primary_key=True)): a new row gets the highest id of its table plus one.
\* The store does not enforce foreign keys (database.py sets no pragma), and
\* the relationships of schemas.User have no delete cascade.

\* Bounds of the sessions model: requests made, and the highest id of a
\* stored user and of a stored journey.
MaxSessionOps == 3
MaxUsers == 2
MaxJourneys == 2

\* User ids a request can carry: 0 for none, the ids users can have, and
\* one id that no user has.
SessionUserIds == 0..(MaxUsers + 1)

\* The function calls a Sentinel response holds in the sessions model: one
\* update_journey call for a milestone-3 checkpoint, with no journey_id.
SessionCalls ==
    { [journey_id |-> Absent, checkpoint_name |-> c.name, value |-> c.value] :
        c \in { [name |-> "style_preference", value |-> "modern"],
                [name |-> "priority_feature", value |-> "storage"] } }

\* The user message of the turns of the sessions model: it holds a keyword
\* for every checkpoint.
SessionMessages ==
    {"My Kitchen needs repair: cheap and quick, modern with storage"}

\* The texts the response-generation call returns in the sessions model.
SessionReplies == {"Tell me more about your project."}

InitSessions ==
    /\ users = {}
    /\ journeys = <<>>
    /\ journey = NewJourney(0)
    /\ pc = "idle"
    /\ message = Null
    /\ ncalls = 0
    /\ clock = 0
    /\ changed = {}
    /\ last_call = NoCall
    /\ evalrun = NoEval
    /\ messages = <<>>
    /\ result = NoResult
    /\ turn = NoTurn
    /\ prompt = Null
    /\ context = EmptyData
    /\ input_data = <<>>
    /\ returned = Null
    /\ tasks = [p \in RequestIds |-> IdleRequest]

\* Variables the sessions model leaves alone.
sessframe ==
    <<journey, pc, ncalls, changed, evalrun, turn, promptvars, returned,
      tasks>>

\* The id the store gives a new row of a table whose rows have these ids.
NextId(ids) ==
    IF ids = {} THEN 1
    ELSE 1 + CHOOSE m \in ids : \A other \in ids : other <= m

\* crud.get_active_journey: the id of the first journey of the user whose
\* status is "in_progress", 0 when there is none.
get_active_journey(js, user_id) ==
    LET active == {k \in 1..Len(js) : /\ js[k].user_id = user_id
                                      /\ js[k].row.status = "in_progress"}
    IN  IF active = {} THEN 0
        ELSE CHOOSE k \in active : \A other \in active : k <= other

\* crud.create_journey: a new row for the user, at milestone 1, in_progress.
\* The last entry of js is the row with the highest id.
create_journey(js, user_id, now) ==
    Append(js, [user_id |-> user_id,
                row |-> [NewJourney(now) EXCEPT !.id = Len(js) + 1]])

\* The session information crud.start_session returns.
SessionInfo(user_id, row) ==
    [ user_id |-> user_id, journey_id |-> row.id,
      current_milestone |-> row.current_milestone, status |-> row.status ]

\* crud.start_session without the test for an active journey.
start_session_always_creates(us, js, user_id, now) ==
    LET known == user_id # 0 /\ user_id \in us
        uid == IF known THEN user_id ELSE NextId(us)
        js2 == create_journey(js, uid, now)
    IN  [ users |-> us \cup {uid}, journeys |-> js2,
          info |-> SessionInfo(uid, js2[Len(js2)].row) ]

\* crud.start_session: the user is created when no id is given or the id is
\* unknown; a journey is created when the user has no active one.
start_session(us, js, user_id, now) ==
    LET known == user_id # 0 /\ user_id \in us
        uid == IF known THEN user_id ELSE NextId(us)
        active == get_active_journey(js, uid)
        js2 == IF active = 0 THEN create_journey(js, uid, now) ELSE js
        k == IF active = 0 THEN Len(js2) ELSE active
    IN  [ users |-> us \cup {uid}, journeys |-> js2,
          info |-> SessionInfo(uid, js2[k].row) ]

\* POST /sessions: routers.sessions.start_session.
StartSession(user_id) ==
    /\ clock < MaxSessionOps
    /\ LET r == start_session(users, journeys, user_id, clock)
       IN  /\ \A u \in r.users : u <= MaxUsers
           /\ Len(r.journeys) <= MaxJourneys
           /\ users' = r.users
           /\ journeys' = r.journeys
           /\ result' = r.info
    /\ clock' = clock + 1
    /\ UNCHANGED <<message, last_call, messages, sessframe>>

\* GET /sessions/{user_id}: routers.sessions.resume_session.  An unknown
\* user gets 404; a user without active journey gets a new one through
\* crud.start_session; otherwise the active journey is reported with its
\* ten newest messages, newest first (crud.get_messages_for_journey).
ResumeSession(user_id) ==
    /\ clock < MaxSessionOps
    /\ IF user_id \notin users
       THEN /\ result' = [error |-> "User not found"]
            /\ UNCHANGED <<users, journeys>>
       ELSE LET active == get_active_journey(journeys, user_id)
                r == start_session(users, journeys, user_id, clock)
            IN  IF active = 0
                THEN /\ Len(r.journeys) <= MaxJourneys
                     /\ users' = r.users
                     /\ journeys' = r.journeys
                     /\ result' = r.info
                ELSE /\ result' =
                          [ user_id |-> user_id,
                            journey_id |-> journeys[active].row.id,
                            current_milestone |->
                                journeys[active].row.current_milestone,
                            status |-> journeys[active].row.status,
                            recent_messages |->
                                get_journey_messages(messages, active, 10,
                                                     TRUE) ]
                     /\ UNCHANGED <<users, journeys>>
    /\ clock' = clock + 1
    /\ UNCHANGED <<message, last_call, messages, sessframe>>

\* POST /users: routers.users.create_user stores a user and returns it.
CreateUser ==
    /\ clock < MaxSessionOps
    /\ NextId(users) <= MaxUsers
    /\ users' = users \cup {NextId(users)}
    /\ result' = [id |-> NextId(users)]
    /\ clock' = clock + 1
    /\ UNCHANGED <<journeys, message, last_call, messages, sessframe>>

\* DELETE /users/{user_id}: routers.users.delete_user with
\* crud.delete_user.  An unknown user gets 404.  The messages of the user's
\* journeys and the journeys are deleted, then the user; at the flush the
\* messages that still carry the user's id (on a journey of another user, or
\* on a journey that was deleted while the chat request was in flight) are
\* detached, which the NOT NULL column user_id refuses: the commit raises
\* IntegrityError and nothing is deleted.  The ids of deleted journeys below
\* the highest stored one stay in `journeys` with owner 0.
DeleteUser(user_id) ==
    /\ clock < MaxSessionOps
    /\ LET journey_ids == {k \in 1..Len(journeys) :
                              journeys[k].user_id = user_id}
           kept == SelectSeq(messages,
                             LAMBDA m : m.journey_id \notin journey_ids)
           rest == [k \in 1..Len(journeys) |->
                       IF k \in journey_ids
                       THEN [user_id |-> 0,
                             row |-> [NewJourney(0) EXCEPT !.id = k,
                                                          !.status = Null]]
                       ELSE journeys[k]]
           stored == {k \in 1..Len(rest) : rest[k].user_id # 0}
       IN  IF user_id \notin users
           THEN /\ result' = [error |-> "User not found"]
                /\ UNCHANGED <<users, journeys, messages>>
           ELSE IF \E i \in 1..Len(kept) : kept[i].user_id = user_id
           THEN /\ result' = [error |-> "IntegrityError"]
                /\ UNCHANGED <<users, journeys, messages>>
           ELSE /\ users' = users \ {user_id}
                /\ journeys' = SubSeq(rest, 1, NextId(stored) - 1)
                /\ messages' = kept
                /\ result' = [status_code |-> 204]
    /\ clock' = clock + 1
    /\ UNCHANGED <<message, last_call, sessframe>>

\* POST /journeys: routers.journeys.create_journey.  An unknown user gets
\* 404; the active journey is returned when there is one; otherwise a
\* journey is created and returned.
CreateJourney(user_id) ==
    /\ clock < MaxSessionOps
    /\ IF user_id \notin users
       THEN /\ result' = [error |-> "User with ID " \o ToString(user_id)
                                        \o " not found"]
            /\ UNCHANGED journeys
       ELSE LET active == get_active_journey(journeys, user_id)
                js2 == create_journey(journeys, user_id, clock)
            IN  IF active # 0
                THEN /\ result' = journeys[active].row
                     /\ UNCHANGED journeys
                ELSE /\ Len(js2) <= MaxJourneys
                     /\ journeys' = js2
                     /\ result' = js2[Len(js2)].row
    /\ clock' = clock + 1
    /\ UNCHANGED <<users, message, last_call, messages, sessframe>>

\* PUT /journeys/{journey_id}: routers.journeys.update_journey.  An unknown
\* journey gets 404; otherwise crud.update_journey writes the fields the
\* request sets (models.JourneyUpdate: current_milestone, status and the six
\* checkpoints) and the row is returned.
UpdateJourney(journey_id, journey_data) ==
    /\ clock < MaxSessionOps
    /\ IF ~JourneyExists(journeys, journey_id)
       THEN /\ result' = [error |-> "Journey with ID "
                                        \o ToString(journey_id)
                                        \o " not found"]
            /\ UNCHANGED journeys
       ELSE \E row \in {crud_update_journey(journeys[journey_id].row,
                                            journey_data, clock)} :
              /\ journeys' = [journeys EXCEPT ![journey_id].row = row]
              /\ result' = row
    /\ clock' = clock + 1
    /\ UNCHANGED <<users, message, last_call, messages, sessframe>>

\* POST /journeys/{journey_id}/checkpoints/{checkpoint_name}:
\* routers.journeys.save_checkpoint.  An unknown journey gets 404 and an
\* unknown checkpoint 400; otherwise the value is stored as it is and
\* check_milestone_completion (lines 373-400, the code of
\* JourneyHandler._check_milestone_completion) runs on the row read back.
SaveCheckpoint(journey_id, checkpoint_name, value) ==
    /\ clock < MaxSessionOps
    /\ IF ~JourneyExists(journeys, journey_id)
       THEN /\ result' = [error |-> "Journey with ID "
                                        \o ToString(journey_id)
                                        \o " not found"]
            /\ UNCHANGED journeys
       ELSE IF checkpoint_name \notin CheckpointNames
       THEN /\ result' = [error |-> "Unknown checkpoint: " \o checkpoint_name]
            /\ UNCHANGED journeys
       ELSE /\ journeys' =
                   [journeys EXCEPT ![journey_id].row =
                       _check_milestone_completion(
                           crud_update_journey(
                               @, (checkpoint_name :> value), clock),
                           clock)]
            /\ result' = [message |-> "Saved checkpoint " \o checkpoint_name
                                          \o " with value " \o value]
    /\ clock' = clock + 1
    /\ UNCHANGED <<users, message, last_call, messages, sessframe>>

\* POST /journeys/{journey_id}/advance: routers.journeys.advance_milestone.
\* An unknown journey gets 404; a journey at milestone 3 or beyond is left
\* as it is; otherwise current_milestone goes up by one.
AdvanceMilestone(journey_id) ==
    /\ clock < MaxSessionOps
    /\ IF ~JourneyExists(journeys, journey_id)
       THEN /\ result' = [error |-> "Journey with ID "
                                        \o ToString(journey_id)
                                        \o " not found"]
            /\ UNCHANGED journeys
       ELSE IF journeys[journey_id].row.current_milestone >= 3
       THEN /\ result' =
                   [message |-> "Journey is already at the final milestone"]
            /\ UNCHANGED journeys
       ELSE \E new_milestone \in
                   {journeys[journey_id].row.current_milestone + 1} :
              /\ journeys' =
                     [journeys EXCEPT ![journey_id].row =
                         crud_update_journey(
                             @, ("current_milestone" :> new_milestone),
                             clock)]
              /\ result' = [message |-> "Advanced to milestone "
                                            \o ToString(new_milestone)]
    /\ clock' = clock + 1
    /\ UNCHANGED <<users, message, last_call, messages, sessframe>>

\* POST /journeys/{journey_id}/complete: routers.journeys.complete_journey.
\* An unknown journey gets 404; otherwise the status becomes "completed".
CompleteJourney(journey_id) ==
    /\ clock < MaxSessionOps
    /\ IF ~JourneyExists(journeys, journey_id)
       THEN /\ result' = [error |-> "Journey with ID "
                                        \o ToString(journey_id)
                                        \o " not found"]
            /\ UNCHANGED journeys
       ELSE /\ journeys' =
                   [journeys EXCEPT ![journey_id].row =
                       crud_update_journey(
                           @, ("status" :> "completed"), clock)]
            /\ result' = [message |-> "Journey completed successfully"]
    /\ clock' = clock + 1
    /\ UNCHANGED <<users, message, last_call, messages, sessframe>>

\* POST /messages/process: routers.messages.process_message.  An unknown
\* user and an unknown journey get 404, a journey of another user gets 403;
\* otherwise the user message and a mock reply are stored, both with the
\* journey's milestone, and no journey field changes.
ProcessMessageEndpoint(user_id, journey_id, msg) ==
    /\ clock < MaxSessionOps
    /\ message' = msg
    /\ IF user_id \notin users
       THEN /\ result' = [error |-> "User with ID " \o ToString(user_id)
                                        \o " not found"]
            /\ UNCHANGED messages
       ELSE IF ~JourneyExists(journeys, journey_id)
       THEN /\ result' = [error |-> "Journey with ID " \o ToString(journey_id)
                                        \o " not found"]
            /\ UNCHANGED messages
       ELSE IF journeys[journey_id].user_id # user_id
       THEN /\ result' = [error |-> "This journey does not belong to the "
                                        \o "specified user"]
            /\ UNCHANGED messages
       ELSE LET row == journeys[journey_id].row
                system_response == "This is a mock response to: " \o msg
            IN  /\ messages' = messages \o
                      << MessageRow(user_id, journey_id, "user", msg,
                                    row.current_milestone),
                         MessageRow(user_id, journey_id, "assistant",
                                    system_response, row.current_milestone) >>
                /\ result' = [journey |-> row,
                              system_response |-> system_response]
    /\ clock' = clock + 1
    /\ UNCHANGED <<users, journeys, last_call, sessframe>>

\* POST /messages: a chat request arrives and takes the first free slot.
SessionTurnStart(p, user_id, journey_id, msg) ==
    /\ clock < MaxSessionOps
    /\ FirstFree(p)
    /\ ChatTurnStart(p, user_id, journey_id, msg)
    /\ clock' = clock + 1

NextSessions ==
    \/ \E user_id \in SessionUserIds : StartSession(user_id)
    \/ \E user_id \in SessionUserIds \ {0} : ResumeSession(user_id)
    \/ \E user_id \in SessionUserIds \ {0} : CreateJourney(user_id)
    \/ \E p \in RequestIds, user_id \in 1..MaxUsers,
          journey_id \in 1..MaxJourneys, msg \in SessionMessages :
            SessionTurnStart(p, user_id, journey_id, msg)
    \/ \E p \in RequestIds, call \in SessionCalls :
            ChatTurnSentinelCall(p, call, clock) /\ UNCHANGED clock
    \/ \E p \in RequestIds : ChatTurnNoCall(p) /\ UNCHANGED clock
    \/ \E p \in RequestIds : ChatTurnSubmit(p) /\ UNCHANGED clock
    \/ \E p \in RequestIds, text \in SessionReplies :
            ChatTurnRespond(p, text) /\ UNCHANGED clock
    \/ \E p \in RequestIds :
            ChatTurnRespondFails(p, clock) /\ UNCHANGED clock
    \/ CreateUser
    \/ \E user_id \in SessionUserIds \ {0} : DeleteUser(user_id)
    \/ \E journey_id \in 1..MaxJourneys :
          \E journey_data \in { [status |-> "in_progress"],
                                [current_milestone |-> 3] } :
            UpdateJourney(journey_id, journey_data)
    \/ \E journey_id \in 1..MaxJourneys :
          \E checkpoint \in
                { [name |-> "priority_feature", value |-> "More Storage"],
                  [name |-> "status", value |-> "in_progress"] } :
            SaveCheckpoint(journey_id, checkpoint.name, checkpoint.value)
    \/ \E journey_id \in 1..MaxJourneys : AdvanceMilestone(journey_id)
    \/ \E journey_id \in 1..MaxJourneys : CompleteJourney(journey_id)
    \/ \E user_id \in 1..MaxUsers, journey_id \in 1..MaxJourneys,
          msg \in SessionMessages :
            ProcessMessageEndpoint(user_id, journey_id, msg)

SpecSessions == InitSessions /\ [][NextSessions]_vars

\* ------------------------------------------- two users, a journey for each
\* The number of requests of the two-user model.
MaxIsolationTurns == 2

\* Ids a request of the two-user model can carry: the two stored ones and one
\* that no row has.
IsolationIds == 1..3

\* The function calls a Sentinel response holds in the two-user model: one
\* update_journey call for the room whose arguments hold no journey_id, the
\* id of either journey, or an id no journey has.
IsolationCalls ==
    { [journey_id |-> i, checkpoint_name |-> "room", value |-> "bathroom"] :
        i \in {Absent} \cup IsolationIds }

\* The store after POST /sessions was served twice without a user id: users
\* 1 and 2, journey 1 of user 1 and journey 2 of user 2, no message.
InitIsolation ==
    /\ users = {1, 2}
    /\ journeys = create_journey(create_journey(<<>>, 1, 0), 2, 0)
    /\ journey = NewJourney(0)
    /\ pc = "idle"
    /\ message = Null
    /\ ncalls = 0
    /\ clock = 0
    /\ changed = {}
    /\ last_call = NoCall
    /\ evalrun = NoEval
    /\ messages = <<>>
    /\ result = NoResult
    /\ turn = NoTurn
    /\ prompt = Null
    /\ context = EmptyData
    /\ input_data = <<>>
    /\ returned = Null
    /\ tasks = [p \in RequestIds |-> IdleRequest]

NextIsolation ==
    \/ \E p \in RequestIds, user_id \in IsolationIds,
          journey_id \in IsolationIds, msg \in SessionMessages :
            /\ clock < MaxIsolationTurns
            /\ SessionTurnStart(p, user_id, journey_id, msg)
    \/ \E p \in RequestIds, call \in IsolationCalls :
            ChatTurnSentinelCall(p, call, clock) /\ UNCHANGED clock
    \/ \E p \in RequestIds : ChatTurnNoCall(p) /\ UNCHANGED clock
    \/ \E p \in RequestIds : ChatTurnSubmit(p) /\ UNCHANGED clock
    \/ \E p \in RequestIds, text \in SessionReplies :
            ChatTurnRespond(p, text) /\ UNCHANGED clock
    \/ \E p \in RequestIds :
            ChatTurnRespondFails(p, clock) /\ UNCHANGED clock
    \/ \E user_id \in IsolationIds, journey_id \in IsolationIds,
          msg \in SessionMessages :
            /\ clock < MaxIsolationTurns
            /\ ProcessMessageEndpoint(user_id, journey_id, msg)

SpecIsolation == InitIsolation /\ [][NextIsolation]_vars

\* ------------------------------------------ the input of the response call
\* The number of earlier exchanges (a user message and its reply) a journey
\* of the input model starts with.
MaxExchanges == 5

\* The log of a journey after n exchanges at milestone 1.
RECURSIVE Exchanges(_)
Exchanges(n) ==
    IF n = 0 THEN <<>>
    ELSE Exchanges(n - 1) \o
         << MessageRow(1, 1, "user", "question " \o ToString(n), 1),
            MessageRow(1, 1, "assistant", "answer " \o ToString(n), 1) >>

\* The user messages of the input model; the second one is also the text
\* of the first message of a log that holds an exchange.
InputMessages == {"Hello there", "question 1"}

\* The function call a Sentinel response holds in the input model.
InputCalls ==
    { [journey_id |-> Absent, checkpoint_name |-> "room",
       value |-> "bathroom"] }

\* The texts the response-generation call returns in the input model.
InputReplies == {"Tell me more about your project."}

\* A new journey of user 1 whose log holds up to MaxExchanges exchanges in
\* which nothing was extracted.  The clock counts the requests that have
\* ended.
InitInput ==
    /\ users = {1}
    /\ journeys = create_journey(<<>>, 1, 0)
    /\ \E n \in 0..MaxExchanges : messages = Exchanges(n)
    /\ tasks = [p \in RequestIds |-> IdleRequest]
    /\ journey = NewJourney(0)
    /\ pc = "idle"
    /\ message = Null
    /\ ncalls = 0
    /\ clock = 0
    /\ changed = {}
    /\ last_call = NoCall
    /\ evalrun = NoEval
    /\ result = NoResult
    /\ turn = NoTurn
    /\ prompt = Null
    /\ context = EmptyData
    /\ input_data = <<>>
    /\ returned = Null

\* A chat request for journey 1 arrives; the slots are used once, in their
\* order.
InputTurnStart(p, msg) ==
    /\ tasks[p].pc = "idle"
    /\ \A q \in RequestIds : q < p => tasks[q].pc # "idle"
    /\ ChatTurnStart(p, 1, 1, msg)
    /\ UNCHANGED clock

NextInput ==
    \/ \E p \in RequestIds, msg \in InputMessages : InputTurnStart(p, msg)
    \/ \E p \in RequestIds, call \in InputCalls :
            ChatTurnSentinelCall(p, call, clock) /\ UNCHANGED clock
    \/ \E p \in RequestIds : ChatTurnNoCall(p) /\ UNCHANGED clock
    \/ \E p \in RequestIds : ChatTurnSubmit(p) /\ UNCHANGED clock
    \/ \E p \in RequestIds, text \in InputReplies :
            ChatTurnRespond(p, text) /\ clock' = clock + 1
    \/ \E p \in RequestIds :
            ChatTurnRespondFails(p, clock) /\ clock' = clock + 1

SpecInput == InitInput /\ [][NextInput]_vars

\* -------------------------------------- turns in which the user answers
\* Number of turns the user takes; the clock counts the turns that have
\* ended.
MaxProgressClock == 7

\* The user's answer to the question of a checkpoint: a keyword of the
\* fallback extractor for it.
AnswerText(checkpoint) ==
    CASE checkpoint = "room" -> "Kitchen"
      [] checkpoint = "renovation_purpose" -> "repair"
      [] checkpoint = "budget_range" -> "cheap"
      [] checkpoint = "timeline" -> "quick"
      [] checkpoint = "style_preference" -> "modern"
      [] checkpoint = "priority_feature" -> "storage"

\* The value the Sentinel's model proposes when it recognises that answer.
AnswerValue(checkpoint) ==
    CASE checkpoint = "room" -> "kitchen"
      [] checkpoint = "renovation_purpose" -> "repair"
      [] checkpoint = "budget_range" -> "low"
      [] checkpoint = "timeline" -> "weeks"
      [] checkpoint = "style_preference" -> "modern"
      [] checkpoint = "priority_feature" -> "storage"

\* What the user sends in a turn: the answer to the checkpoint that
\* Sentinel._get_next_checkpoint_to_extract asks for.  When it asks for
\* none, both checkpoints of the current milestone are filled and the reply
\* moves on to the next milestone (_generate_response, lines 520-550): the
\* user answers one of that milestone's two questions.
UserAnswers(j) ==
    IF _get_next_checkpoint_to_extract(j) # Null
    THEN {AnswerText(_get_next_checkpoint_to_extract(j))}
    ELSE LET asked == _get_valid_checkpoints_for_milestone(
                          IF j.current_milestone < 3
                          THEN j.current_milestone + 1 ELSE 3)
         IN  {AnswerText(asked[i]) : i \in 1..Len(asked)}

\* The answer the request in `task` carries is in the journey its session
\* read back after the Sentinel phase.
AnswerStored(task) ==
    \E c \in CheckpointNames :
        AnswerText(c) = task.message /\ Truthy(task.seen[c])

\* A new journey of user 1 and an empty message log.
InitProgress ==
    /\ users = {1}
    /\ journeys = create_journey(<<>>, 1, 0)
    /\ tasks = [p \in RequestIds |-> IdleRequest]
    /\ journey = NewJourney(0)
    /\ pc = "idle"
    /\ message = Null
    /\ ncalls = 0
    /\ clock = 0
    /\ changed = {}
    /\ last_call = NoCall
    /\ evalrun = NoEval
    /\ messages = <<>>
    /\ result = NoResult
    /\ turn = NoTurn
    /\ prompt = Null
    /\ context = EmptyData
    /\ input_data = <<>>
    /\ returned = Null

\* The user answers the question of the reply to the previous turn: a chat
\* request for the journey arrives when no other is in flight, while the
\* journey is in progress.  The user message is stored in the log.
ProgressTurnStart(p) ==
    /\ clock < MaxProgressClock
    /\ journeys[1].row.status = "in_progress"
    /\ \A q \in RequestIds : ~InFlight(tasks[q])
    /\ FirstFree(p)
    /\ \E msg \in UserAnswers(journeys[1].row) :
           ChatTurnStart(p, 1, 1, msg)
    /\ UNCHANGED clock

\* The Sentinel's model is reachable and proposes the value of the user's
\* answer for the checkpoint it was asked for, the target of the journey as
\* analyze read it when the request arrived.
SentinelAnswers(p) ==
    /\ tasks[p].pc = "sentinel"
    /\ \E target \in {_get_next_checkpoint_to_extract(tasks[p].seen)} :
          /\ target # Null
          /\ ChatTurnSentinelCall(
                 p, [journey_id |-> Absent, checkpoint_name |-> target,
                     value |-> AnswerValue(target)], clock)
    /\ UNCHANGED clock

\* The Sentinel's model proposes nothing, because it was asked for no
\* checkpoint or because it is not reachable.
NoAnswer(p) == ChatTurnNoCall(p) /\ UNCHANGED clock

\* The submission of the tool result returns.
ProgressSubmit(p) == ChatTurnSubmit(p) /\ UNCHANGED clock

\* The response call answers and the assistant message is stored in the
\* log.  The model service that answers here answered the Sentinel as well:
\* the answer of the turn is in the journey read back, or the Sentinel was
\* asked for no checkpoint.
ResponseAnswers(p) ==
    /\ tasks[p].pc = "respond"
    /\ \/ AnswerStored(tasks[p])
       \/ _get_next_checkpoint_to_extract(tasks[p].seen) = Null
    /\ ChatTurnRespond(p, "Tell me more about your project.")
    /\ clock' = clock + 1

\* The response call raises, so the keyword extractor of the fallback
\* branch reads the answer; the template response is stored in the log.
FallbackAnswers(p) ==
    /\ ChatTurnRespondFails(p, clock)
    /\ clock' = clock + 1

\* A step of the request in slot p after its arrival.
ProgressStep(p) ==
    \/ SentinelAnswers(p)
    \/ NoAnswer(p)
    \/ ProgressSubmit(p)
    \/ ResponseAnswers(p)
    \/ FallbackAnswers(p)

NextProgress ==
    \E p \in RequestIds : ProgressTurnStart(p) \/ ProgressStep(p)

\* The user keeps answering and every request is served to its end.  In
\* every turn an extractor is in use on the answer: the Sentinel, whose
\* model proposes the value for the checkpoint it was asked for, or, when
\* the model service is not reachable, the keyword extractor of the fallback
\* branch.
SpecProgress ==
    /\ InitProgress
    /\ [][NextProgress]_vars
    /\ WF_vars(NextProgress)

\* ------------------------------------------------ normalizer run on its own
\* Raw values handed to the normalizer: canonical words, synonyms, several
\* keywords at once, upper case and padding (blanks and a form feed), and
\* text with no keyword.
NormalizerInputs ==
    {"low", "  Medium  ", "HIGH", "cheap but high quality",
     "very affordable option", "premium",
     "need it done in two weeks", "a few months", "no rush",
     "soon, within months",
     "something with clean lines", "contemporary", "rustic wood",
     "minimalist", "Traditional",
     "eco-friendly appliances please", "open space", "storage",
     "better lighting", "smart features", "energy efficiency",
     "no idea", "", "Kitchen", "fix the leaks", "\fsunroom", " \f low \n"}

InitNormalize ==
    /\ journey = NewJourney(0)
    /\ pc = "normalize"
    /\ message = Null
    /\ ncalls = 0
    /\ clock = 0
    /\ changed = {}
    /\ \E c \in CheckpointNames, v \in NormalizerInputs :
          last_call = [journey_id |-> 1, checkpoint_name |-> c, value |-> v]
    /\ evalrun = NoEval
    /\ InitOthers

\* Sentinel._validate_checkpoint_value(checkpoint, value) on the proposed
\* update.
Normalize ==
    /\ pc = "normalize"
    /\ returned' = _validate_checkpoint_value(last_call.checkpoint_name,
                                              last_call.value)
    /\ pc' = "normalized"
    /\ UNCHANGED <<journey, message, ncalls, clock, changed, last_call,
                   evalrun, turnvars, promptvars, sessvars, tasks>>

\* Sentinel._validate_checkpoint_value applied to its own result: the value
\* returned becomes the proposed value.
NormalizeAgain ==
    /\ pc = "normalized"
    /\ last_call' = [last_call EXCEPT !.value = returned]
    /\ returned' = _validate_checkpoint_value(last_call.checkpoint_name,
                                              returned)
    /\ pc' = "renormalized"
    /\ UNCHANGED <<journey, message, ncalls, clock, changed, evalrun, turnvars,
                   promptvars, sessvars, tasks>>

NextNormalize == Normalize \/ NormalizeAgain

SpecNormalize == InitNormalize /\ [][NextNormalize]_vars

\* ------------------------------------------- target selection run on its own
\* Journey rows whose current_milestone and six checkpoint columns take every
\* combination (null, empty and text; milestones 0 and 4 are outside 1..3).
TargetJourneyStates ==
    { [NewJourney(0) EXCEPT !.current_milestone = m,
                            !.room = f[1], !.renovation_purpose = f[2],
                            !.budget_range = f[3], !.timeline = f[4],
                            !.style_preference = f[5],
                            !.priority_feature = f[6]] :
        m \in 0..4, f \in [1..6 -> FieldValues] }

InitTarget ==
    /\ journey \in TargetJourneyStates
    /\ pc = "target"
    /\ message = Null
    /\ ncalls = 0
    /\ clock = 0
    /\ changed = {}
    /\ last_call = NoCall
    /\ evalrun = NoEval
    /\ InitOthers

\* Sentinel._get_next_checkpoint_to_extract(journey), the checkpoint name of
\* the returned pair.
SelectTarget ==
    /\ pc = "target"
    /\ returned' = _get_next_checkpoint_to_extract(journey)
    /\ pc' = "targeted"
    /\ UNCHANGED <<journey, message, ncalls, clock, changed, last_call,
                   evalrun, turnvars, promptvars, sessvars, tasks>>

NextTarget == SelectTarget

SpecTarget == InitTarget /\ [][NextTarget]_vars

\* ------------------------------------------ keyword fallback run on its own
\* Messages handed to the keyword fallback: no keyword, a keyword for each of
\* the six checkpoints, and keywords for four of them.
FallbackMessages ==
    {"Hello there",
     "My Kitchen needs repair: cheap and quick, modern with storage",
     "the Bathroom: expensive, rustic, more light"}

InitFallback ==
    /\ journey \in TargetJourneyStates
    /\ pc = "fallback"
    /\ message \in FallbackMessages
    /\ ncalls = 0
    /\ clock = 1
    /\ changed = {}
    /\ last_call = NoCall
    /\ evalrun = NoEval
    /\ InitOthers

\* JourneyHandler._analyze_message_for_checkpoints(journey, message) on the
\* stored journey.
RunFallback ==
    /\ pc = "fallback"
    /\ journey' = _analyze_message_for_checkpoints(journey, message, clock)
    /\ clock' = clock + 1
    /\ pc' = "done"
    /\ UNCHANGED <<message, ncalls, changed, last_call, evalrun, turnvars,
                   promptvars, sessvars, returned, tasks>>

NextFallback == RunFallback

SpecFallback == InitFallback /\ [][NextFallback]_vars

\* ------------------------------------- chat turns interleaved on one journey
\* Every request runs process_message as a coroutine with a store session of
\* its own; coroutines change places at the awaited model calls.  A task is
\* one such turn, followed from the point where it re-reads the journey after
\* a Sentinel phase that extracted nothing (line 129) until its response
\* phase ends.  `seen` is the journey object of the task's session.
TaskIds == 1..MaxTasks

IdleTask ==
    [pc |-> "idle", message |-> Null, seen |-> NewJourney(0),
     update_data |-> EmptyData, fallback_at |-> 0]

InitRace ==
    /\ journey \in {NewJourney(0),
                    [NewJourney(0) EXCEPT !.renovation_purpose = "aesthetic"]}
    /\ pc = "race"
    /\ message = Null
    /\ ncalls = 0
    /\ clock = 1
    /\ changed = {}
    /\ last_call = NoCall
    /\ evalrun = NoEval
    /\ messages = <<>>
    /\ result = NoResult
    /\ turn = NoTurn
    /\ prompt = Null
    /\ context = EmptyData
    /\ input_data = <<>>
    /\ returned = Null
    /\ users = {}
    /\ journeys = <<>>
    /\ tasks = [p \in TaskIds |-> IdleTask]

raceframe ==
    <<pc, message, ncalls, changed, last_call, evalrun, turnvars, promptvars,
      sessvars, returned>>

\* process_message, lines 84-139: the turn of task p re-reads the journey
\* into its session and goes on to the awaited response call.
TaskReads(p, msg) ==
    /\ tasks[p].pc = "idle"
    /\ tasks' = [tasks EXCEPT ![p] = [@ EXCEPT !.pc = "respond",
                                               !.message = msg,
                                               !.seen = journey]]
    /\ UNCHANGED <<journey, clock, raceframe>>

\* process_message, lines 180-224: the response call of task p returns.
TaskResponds(p) ==
    /\ tasks[p].pc = "respond"
    /\ tasks' = [tasks EXCEPT ![p] = [@ EXCEPT !.pc = "done"]]
    /\ UNCHANGED <<journey, clock, raceframe>>

\* The journey object the keyword tests of the fallback read: the one loaded
\* into the task's session before the response call (lines 129 and 235-237).
FallbackSubject_store(task) == journey

FallbackSubject(task) == task.seen

\* process_message, lines 226-269: the response call of task p raised; the
\* fallback collects update_data from the journey object of its session,
\* crud.update_journey writes these columns to the stored row, and the
\* evaluator runs on the row read back.
TaskFallsBack(p) ==
    /\ tasks[p].pc = "respond"
    /\ LET update_data ==
               fallback_update_data(FallbackSubject(tasks[p]),
                                    tasks[p].message)
       IN  /\ journey' =
                 IF DOMAIN update_data # {}
                 THEN _check_milestone_completion(
                          crud_update_journey(journey, update_data, clock),
                          clock)
                 ELSE journey
           /\ tasks' = [tasks EXCEPT ![p] =
                           [@ EXCEPT !.pc = "done",
                                     !.update_data = update_data,
                                     !.fallback_at = clock]]
    /\ clock' = clock + 1
    /\ UNCHANGED raceframe

NextRace ==
    \/ \E p \in TaskIds, msg \in FallbackMessages : TaskReads(p, msg)
    \/ \E p \in TaskIds : TaskResponds(p)
    \/ \E p \in TaskIds : TaskFallsBack(p)

SpecRace == InitRace /\ [][NextRace]_vars

\* ------------------------------------------------------------------ claims
\* The completion flag of milestone n.
MilestoneCompleted(j, n) ==
    CASE n = 1 -> j.milestone1_completed
      [] n = 2 -> j.milestone2_completed
      [] n = 3 -> j.milestone3_completed

\* One loop iteration of the Sentinel phase: a step that handled a function
\* call (the call is last_call').
IsToolCallStep == pc = "sentinel" /\ pc' = "sentinel" /\ ncalls' = ncalls + 1

\* C1: in every state reachable by chat turns, milestoneN_completed = true
\* implies that both checkpoint fields of milestone N are non-null (N = 1..3).
C1_CompletedImpliesCheckpoints ==
    \A n \in 1..3 :
        MilestoneCompleted(journey, n) =>
            \A i \in 1..2 :
                journey[_get_valid_checkpoints_for_milestone(n)[i]] # Null

\* C1 witness: a milestone has been flagged complete, with its checkpoints
\* stored.
C1_Witness ==
    /\ journey.milestone1_completed
    /\ journey.room # Null
    /\ journey.renovation_purpose # Null

\* C2 (as claimed): a Sentinel tool call never changes a checkpoint field
\* that already holds a value (first write wins).
C2_FirstWriteWins ==
    [][IsToolCallStep =>
        \A c \in CheckpointNames :
            journey[c] # Null => journey'[c] = journey[c]]_vars

\* C3 (as claimed): a tool call that names a valid checkpoint other than the
\* Sentinel's current target (or any valid checkpoint when there is no
\* target) changes no field of the journey.
C3_TargetGuardrail ==
    [][IsToolCallStep =>
        ((/\ last_call'.checkpoint_name \in CheckpointNames
          /\ last_call'.checkpoint_name
                # _get_next_checkpoint_to_extract(journey))
            => journey' = journey)]_vars

\* The highest N whose milestone is flagged complete, 0 if none.
HighestCompleted(j) ==
    IF j.milestone3_completed THEN 3
    ELSE IF j.milestone2_completed THEN 2
    ELSE IF j.milestone1_completed THEN 1
    ELSE 0

\* C4 (as claimed): in every state reachable by chat turns, current_milestone
\* equals min(3, 1 + h), h the highest completed milestone (0 if none).
C4_CurrentMilestoneFollowsCompletion ==
    journey.current_milestone =
        (IF 1 + HighestCompleted(journey) < 3
         THEN 1 + HighestCompleted(journey) ELSE 3)

\* C5: no step of a chat turn (Sentinel tool call, either evaluator, the
\* fallback extractor) decreases current_milestone.
C5_MilestoneNeverDecreases ==
    [][journey'.current_milestone >= journey.current_milestone]_vars

\* C5 witness: the journey has been advanced from milestone 1 to 3.
C5_Witness ==
    /\ journey.current_milestone = 3
    /\ journey.milestone2_completed

\* C6: in every state reachable by chat turns, milestone3_completed = true
\* implies status = "completed".
C6_Milestone3ImpliesCompleted ==
    journey.milestone3_completed => journey.status = "completed"

\* C6 witness: milestone 3 has been flagged complete.
C6_Witness ==
    /\ journey.milestone3_completed
    /\ journey.style_preference # Null
    /\ journey.priority_feature # Null

\* C7 (as claimed): every value a Sentinel tool call stores in a checkpoint
\* field is the normalizer's result for the raw value of the call.
C7_PersistedValueIsNormalized ==
    [][IsToolCallStep =>
        \A c \in CheckpointNames :
            journey'[c] # journey[c] =>
                journey'[c] =
                    _validate_checkpoint_value(c, last_call'.value)]_vars

\* C8 (as claimed): in every state reachable by chat turns, each of the four
\* constrained checkpoint fields is null or a member of its canonical set.
C8_ConstrainedFieldsCanonical ==
    \A c \in ConstrainedCheckpoints :
        journey[c] = Null \/ journey[c] \in CanonicalValues(c)

\* C9 (as claimed): during one chat turn the Sentinel changes at most one
\* checkpoint field, whatever number of function calls the response holds.
C9_SingleTargetPerTurn ==
    Cardinality(changed) <= 1

\* C10: both evaluators are idempotent: after a second run the journey
\* (flags, timestamps, status, current_milestone, every column) equals the
\* journey after the first run.
C10_EvaluatorIdempotent ==
    evalrun.runs = 2 => journey = evalrun.first

\* C10 witness: the evaluator has run twice and its first run completed
\* milestone 2 and advanced the journey.
C10_Witness ==
    /\ evalrun.runs = 2
    /\ evalrun.variant = "all"
    /\ journey.milestone2_completed_at = <<1>>
    /\ journey.current_milestone = 3
    /\ journey.updated_at = 1

\* The template of milestone m for each case of the decision tree.
MilestoneTemplate(m, case) ==
    CASE m = 1 ->
            (CASE case = "complete" -> "MILESTONE_1_COMPLETE"
               [] case = "a_known" -> "MILESTONE_1_ROOM_KNOWN"
               [] case = "b_known" -> "MILESTONE_1_PURPOSE_KNOWN"
               [] case = "intro" -> "MILESTONE_1_INTRO")
      [] m = 2 ->
            (CASE case = "complete" -> "MILESTONE_2_COMPLETE"
               [] case = "a_known" -> "MILESTONE_2_BUDGET_KNOWN"
               [] case = "b_known" -> "MILESTONE_2_TIMELINE_KNOWN"
               [] case = "intro" -> "MILESTONE_2_INTRO")
      [] m = 3 ->
            (CASE case = "complete" -> "MILESTONE_3_COMPLETE"
               [] case = "a_known" -> "MILESTONE_3_STYLE_KNOWN"
               [] case = "b_known" -> "MILESTONE_3_FEATURE_KNOWN"
               [] case = "intro" -> "MILESTONE_3_INTRO")

\* The case of the decision tree a journey at milestone m (1..3) falls in.
MilestoneCase(j, m) ==
    LET a == Truthy(j[_get_valid_checkpoints_for_milestone(m)[1]])
        b == Truthy(j[_get_valid_checkpoints_for_milestone(m)[2]])
    IN  IF MilestoneCompleted(j, m) THEN "complete"
        ELSE IF a /\ ~b THEN "a_known"
        ELSE IF b /\ ~a THEN "b_known"
        ELSE "intro"

\* C16: for every journey state the selector returns journey-complete when
\* status is completed; otherwise, for current_milestone m in 1..3, the
\* milestone-m complete template if m's flag is set, else the A-known
\* template if only A is known, else the B-known template if only B is
\* known, else the milestone-m intro; and the generic template when
\* current_milestone is outside 1..3.
C16_PromptDecisionTree ==
    pc = "selected" =>
        prompt =
            (IF journey.status = "completed" THEN "JOURNEY_COMPLETE"
             ELSE IF journey.current_milestone \in 1..3
                THEN MilestoneTemplate(
                        journey.current_milestone,
                        MilestoneCase(journey, journey.current_milestone))
             ELSE "DEFAULT")

\* C16 witness: the selector has run on a journey at milestone 1 with the
\* room known and the purpose unknown, and chose the room-known template.
C16_Witness ==
    /\ pc = "selected"
    /\ journey.status = "in_progress"
    /\ journey.current_milestone = 1
    /\ journey.room = "kitchen"
    /\ journey.renovation_purpose = Null
    /\ prompt = "MILESTONE_1_ROOM_KNOWN"

\* A turn of the turn model has run to its end.
TurnEnded == pc = "idle" /\ turn.journey_id # 0

\* Both lookups of the turn found their row.
LookupsPassed == turn.user_id \in Users /\ turn.journey_id = journey.id

\* C11: if the user id or the journey id of a turn does not resolve, the
\* turn returns a structured error and has no effect on stored state: no
\* message is persisted, no journey field changes, no LLM call is made.
C11_LookupFailureHasNoEffect ==
    (TurnEnded /\ ~LookupsPassed /\ ~turn.store_error) =>
        /\ result.error # Null
        /\ result.journey_state = <<>>
        /\ messages = turn.log_before
        /\ journey = turn.before
        /\ turn.llm_calls = 0

\* C11 witness: a turn for an unknown user has ended on a journey that
\* already has a message log.
C11_Witness ==
    /\ TurnEnded
    /\ turn.user_id = 2
    /\ result.error = "User 2 not found"
    /\ Len(messages) = 2

\* C12: if the response-generation call fails and no store error occurs, the
\* turn returns a result without error, with a non-empty response_text and
\* a journey_state of milestone, completed_checkpoints and status, and
\* exactly one assistant message is persisted for the turn.
C12_FallbackStillAnswers ==
    (TurnEnded /\ turn.response_failed /\ ~turn.store_error) =>
        /\ result.error = Null
        /\ Truthy(result.response_text)
        /\ Len(result.journey_state) = 1
        /\ result.journey_state[1].milestone = journey.current_milestone
        /\ result.journey_state[1].status = journey.status
        /\ result.journey_state[1].completed_checkpoints
                = _get_completed_checkpoints(journey)
        /\ Len(messages) = Len(turn.log_before) + 2
        /\ Cardinality({i \in (Len(turn.log_before) + 1)..Len(messages) :
                            messages[i].speaker = "assistant"}) = 1

\* C12 witness: the response-generation call failed and the keyword
\* fallback extracted the purpose from the message.
C12_Witness ==
    /\ TurnEnded
    /\ turn.response_failed
    /\ ~turn.store_error
    /\ journey.renovation_purpose = "repair"
    /\ messages[Len(messages)].speaker = "assistant"

\* C13 (as claimed): if the Sentinel's LLM interaction raises (first
\* request, argument parsing, submission of the tool results), the journey
\* after the extraction phase equals the journey before it and the keyword
\* fallback has not been triggered.
C13_SentinelErrorLeavesJourney ==
    (/\ pc \in {"analyzed", "respond"}
     /\ turn.sentinel_error # "none"
     /\ ~turn.store_error) =>
        /\ journey = turn.before
        /\ ~turn.fallback

\* A step in which the tool handler ran on the arguments of a function call
\* (last_call') and no store call raised.
IsHandlerStep ==
    /\ pc = "calls"
    /\ ncalls' = ncalls + 1
    /\ turn'.call_result \in {"success", "error"}
    /\ turn'.faults = turn.faults

\* A function call with a missing journey_id, a missing checkpoint_name or
\* value, or a checkpoint_name outside the six valid names.
Malformed(call) ==
    \/ call.journey_id \in {Absent, 0}
    \/ call.checkpoint_name = Null
    \/ call.value = Null
    \/ call.checkpoint_name \notin CheckpointNames

\* C14 (as claimed): a malformed update_journey tool call returns an error
\* object, changes no journey field and leaves the turn in its tool loop.
C14_MalformedCallRejected ==
    [][(IsHandlerStep /\ Malformed(last_call')) =>
        /\ turn'.call_result = "error"
        /\ journey' = journey
        /\ pc' = "calls"]_vars

\* C15 (as claimed): a turn in which any store call raised returns the
\* structured error with the generic try-again message.
C15_StoreErrorReturnsError ==
    (TurnEnded /\ turn.store_error) => result = DbErrorResult

\* C19: no step changes or removes a stored message, and a turn that passes
\* the lookups and meets no store error leaves the log equal to the log
\* before the turn followed by the user message and one assistant message.
C19_MessageLogAppendOnly ==
    [][/\ Len(messages') >= Len(messages)
       /\ SubSeq(messages', 1, Len(messages)) = messages
       /\ (TurnEnded' /\ LookupsPassed' /\ ~turn'.store_error) =>
            /\ Len(messages') = Len(turn'.log_before) + 2
            /\ SubSeq(messages', 1, Len(turn'.log_before)) = turn'.log_before
            /\ messages'[Len(messages') - 1].speaker = "user"
            /\ messages'[Len(messages') - 1].content = message'
            /\ messages'[Len(messages')].speaker = "assistant"]_vars

\* C19 witness: a turn has ended on a journey with an earlier exchange; the
\* log holds the earlier exchange followed by the two messages of the turn.
C19_Witness ==
    /\ TurnEnded
    /\ LookupsPassed
    /\ ~turn.store_error
    /\ Len(messages) = 4
    /\ messages[1].content = "Hello there"
    /\ messages[3].content
          = "My Kitchen needs repair: cheap and quick, modern with storage"
    /\ messages[4].content = "I'm sorry, I couldn't generate a response."

\* C20: while the extraction and the response generation of a turn run, the
\* user message of the turn is already in the log, stored with the
\* current_milestone the journey had before the extraction.
C20_UserMessageTaggedBeforeExtraction ==
    pc \in {"extract", "calls", "analyzed", "respond"} =>
        /\ Len(messages) = Len(turn.log_before) + 1
        /\ messages[Len(messages)] =
              MessageRow(turn.user_id, turn.journey_id, "user", message,
                         turn.before.current_milestone)

\* C20 witness: the extraction advanced the journey to milestone 2 in the
\* turn whose user message is stored with milestone 1.
C20_Witness ==
    /\ pc = "respond"
    /\ journey.current_milestone = 2
    /\ messages[Len(messages)].speaker = "user"
    /\ messages[Len(messages)].current_milestone = 1


\* C17: from a journey at milestone 3 with room, renovation_purpose,
\* budget_range and timeline set, after the two turns in which the Sentinel
\* extracted style_preference and then priority_feature the journey has
\* milestone3_completed = TRUE and status = "completed", and the prompt
\* selected from that state is the journey-complete template.  It is stated
\* for every order in which the steps of the two requests are served.
C17_ScenarioEndsCompleted ==
    (\A p \in ScenarioTaskIds : tasks[p].pc = "done") =>
        /\ journeys[1].row.milestone3_completed = TRUE
        /\ journeys[1].row.status = "completed"
        /\ get_prompt_for_journey(
               journeys[1].row, _get_completed_checkpoints(journeys[1].row))
              = "JOURNEY_COMPLETE"

\* C17 witness: the second request arrived after the first had ended (its
\* user message follows the reply of the first) and both turns were
\* answered by the model; the journey holds the two extracted values and is
\* completed, and the prompt selected from it is the journey-complete
\* template.
C17_Witness ==
    /\ \A p \in ScenarioTaskIds : tasks[p].pc = "done"
    /\ Len(messages) = 4
    /\ messages[1].current_milestone = 3
    /\ messages[2].speaker = "assistant"
    /\ messages[2].content = "Tell me more about your project."
    /\ messages[3].speaker = "user"
    /\ messages[4].content = "Tell me more about your project."
    /\ result.journey_state[1].status = "completed"
    /\ Truthy(journeys[1].row.style_preference)
    /\ Truthy(journeys[1].row.priority_feature)
    /\ journeys[1].row.milestone3_completed
    /\ journeys[1].row.status = "completed"
    /\ get_prompt_for_journey(
           journeys[1].row, _get_completed_checkpoints(journeys[1].row))
          = "JOURNEY_COMPLETE"


\* Each user has at most one journey whose status is "in_progress".
AtMostOneActive(us, js) ==
    \A u \in us :
        Cardinality({k \in 1..Len(js) :
                        /\ js[k].user_id = u
                        /\ js[k].row.status = "in_progress"}) <= 1

\* A step of a request that creates journeys (a session start, a session
\* resume, a journey creation) or of a chat turn.
IsSessionOrChatStep ==
    \/ \E user_id \in SessionUserIds : StartSession(user_id)
    \/ \E user_id \in SessionUserIds \ {0} : ResumeSession(user_id)
    \/ \E user_id \in SessionUserIds \ {0} : CreateJourney(user_id)
    \/ \E p \in RequestIds, user_id \in 1..MaxUsers,
          journey_id \in 1..MaxJourneys, msg \in SessionMessages :
            SessionTurnStart(p, user_id, journey_id, msg)
    \/ \E p \in RequestIds, call \in SessionCalls :
            ChatTurnSentinelCall(p, call, clock) /\ UNCHANGED clock
    \/ \E p \in RequestIds : ChatTurnNoCall(p) /\ UNCHANGED clock
    \/ \E p \in RequestIds : ChatTurnSubmit(p) /\ UNCHANGED clock
    \/ \E p \in RequestIds, text \in SessionReplies :
            ChatTurnRespond(p, text) /\ UNCHANGED clock
    \/ \E p \in RequestIds :
            ChatTurnRespondFails(p, clock) /\ UNCHANGED clock

\* C18: after any sequence of session starts, session resumes, journey
\* creations and chat turns, each user has at most one journey whose status
\* is "in_progress": it is so in the empty store, and no session start,
\* session resume, journey creation or step of a chat turn leads from a
\* store where it is so to one where it is not, whatever the other requests
\* have written before.
C18_AtMostOneActiveJourney ==
    /\ AtMostOneActive(users, journeys)
    /\ [][ (AtMostOneActive(users, journeys) /\ IsSessionOrChatStep)
              => AtMostOneActive(users', journeys') ]_vars

\* C18 witness: after a chat turn on the journey of user 1, which is in
\* progress, a session start for the user has answered with that journey and
\* has created none.
C18_Witness ==
    /\ users = {1}
    /\ Len(journeys) = 1
    /\ journeys[1].user_id = 1
    /\ journeys[1].row.status = "in_progress"
    /\ Len(messages) = 2
    /\ messages[1].speaker = "user"
    /\ messages[2].speaker = "assistant"
    /\ messages[2].content = "Tell me more about your project."
    /\ \A p \in RequestIds : ~InFlight(tasks[p])
    /\ result = SessionInfo(1, journeys[1].row)


\* The milestone a checkpoint belongs to.
MilestoneOf(name) ==
    CHOOSE n \in 1..3 :
        \E i \in 1..2 : _get_valid_checkpoints_for_milestone(n)[i] = name

\* C21: the context mapping built for the response call holds a
\* checkpoint's value only if the checkpoint belongs to a milestone less than
\* or equal to current_milestone; a populated field of a later milestone
\* never appears in it.
C21_ContextHidesLaterMilestones ==
    pc = "selected" =>
        /\ DOMAIN context \subseteq
                CheckpointNames \cup {"milestone", "completed_checkpoints"}
        /\ \A name \in CheckpointNames \cap DOMAIN context :
                /\ MilestoneOf(name) <= journey.current_milestone
                /\ context[name] = journey[name]
        /\ \A i \in 1..Len(context["completed_checkpoints"]) :
                MilestoneOf(context["completed_checkpoints"][i])
                    <= journey.current_milestone

\* C21 witness: a journey at milestone 1 whose budget_range and
\* style_preference are populated; the context holds the room and neither of
\* the two.
C21_Witness ==
    /\ pc = "selected"
    /\ journey.current_milestone = 1
    /\ Truthy(journey.style_preference)
    /\ Truthy(journey.budget_range)
    /\ "room" \in DOMAIN context
    /\ "style_preference" \notin DOMAIN context
    /\ "budget_range" \notin DOMAIN context


\* The completion timestamp of milestone n.
MilestoneCompletedAt(j, n) ==
    CASE n = 1 -> j.milestone1_completed_at
      [] n = 2 -> j.milestone2_completed_at
      [] n = 3 -> j.milestone3_completed_at

\* Both checkpoints of milestone n are filled.
CheckpointsFilled(j, n) ==
    /\ Truthy(j[_get_valid_checkpoints_for_milestone(n)[1]])
    /\ Truthy(j[_get_valid_checkpoints_for_milestone(n)[2]])

\* A step that ran the evaluator of the given variant on the journey.
IsEvaluatorStep(variant) ==
    /\ pc = "eval"
    /\ evalrun.variant = variant
    /\ evalrun'.runs = evalrun.runs + 1

\* C24: the current-milestone evaluator changes nothing except the completion
\* flag and timestamp of the journey's current milestone (and status, only
\* when that milestone is 3): current_milestone, the six checkpoint fields and
\* the flags and timestamps of the other milestones keep their values, and
\* nothing at all changes when the current milestone is already flagged or
\* one of its checkpoints is not filled.
C24_CurrentEvaluatorFrame ==
    [][IsEvaluatorStep("current") =>
        LET n == journey.current_milestone
        IN  /\ journey'.current_milestone = n
            /\ journey'.id = journey.id
            /\ \A c \in CheckpointNames : journey'[c] = journey[c]
            /\ \A m \in (1..3) \ {n} :
                  /\ MilestoneCompleted(journey', m)
                        = MilestoneCompleted(journey, m)
                  /\ MilestoneCompletedAt(journey', m)
                        = MilestoneCompletedAt(journey, m)
            /\ n # 3 => journey'.status = journey.status
            /\ (MilestoneCompleted(journey, n) \/ ~CheckpointsFilled(journey, n))
                  => journey' = journey
            /\ (~MilestoneCompleted(journey, n) /\ CheckpointsFilled(journey, n))
                  => /\ MilestoneCompleted(journey', n)
                     /\ MilestoneCompletedAt(journey', n) = <<clock>>
                     /\ n = 3 => journey'.status = "completed"]_vars

\* C24 witness: the first run of the current-milestone evaluator flagged
\* milestone 2 of a journey whose milestone-3 checkpoints are filled too and
\* whose milestone 1 is not flagged.
C24_Witness ==
    /\ evalrun.variant = "current"
    /\ evalrun.runs = 1
    /\ journey.current_milestone = 2
    /\ journey.milestone2_completed_at = <<1>>
    /\ ~journey.milestone1_completed
    /\ CheckpointsFilled(journey, 1)
    /\ CheckpointsFilled(journey, 3)
    /\ ~journey.milestone3_completed
    /\ journey.status = "abandoned"

\* The highest milestone whose two checkpoints are both filled, 0 if none.
HighestFilled(j) ==
    IF CheckpointsFilled(j, 3) THEN 3
    ELSE IF CheckpointsFilled(j, 2) THEN 2
    ELSE IF CheckpointsFilled(j, 1) THEN 1
    ELSE 0

\* C25 (as claimed): update_milestone flags every milestone whose two
\* checkpoints are filled, sets status to completed when milestone 3's are,
\* and leaves current_milestone = max(old current_milestone, min(3, h + 1)),
\* h the highest milestone whose two checkpoints are filled.
C25_AllMilestonesEvaluator ==
    [][IsEvaluatorStep("all") =>
        LET h == HighestFilled(journey)
            target == IF h + 1 < 3 THEN h + 1 ELSE 3
        IN  /\ \A n \in 1..3 :
                  CheckpointsFilled(journey, n) => MilestoneCompleted(journey', n)
            /\ CheckpointsFilled(journey, 3) => journey'.status = "completed"
            /\ journey'.current_milestone =
                  IF journey.current_milestone > target
                  THEN journey.current_milestone ELSE target]_vars

\* The step of a turn that ends its response phase.
IsResponseStep == pc = "respond" /\ pc' = "idle"

\* C30 (as claimed): the keyword fallback runs in a turn exactly when the
\* response-generation call of the turn raised, and a response phase whose
\* call did not raise leaves every journey field as the Sentinel phase left
\* it.
C30_FallbackOnlyOnResponseError ==
    [][IsResponseStep =>
        /\ turn'.fallback <=> turn'.response_failed
        /\ ~turn'.response_failed => journey' = journey]_vars

\* The keyword values a message holds for the checkpoints of milestone m.
KeywordValues(m, msg) ==
    fallback_update_data([NewJourney(0) EXCEPT !.current_milestone = m], msg)

\* C22: the fallback of a turn writes every checkpoint that the turn observed
\* as not filled when it read the journey and that its message has a keyword
\* for, whatever the stored row holds at the time of the write: a value
\* stored in between by another turn on the same journey is replaced.
C22_CheckAndWriteNotAtomic ==
    [][\A p \in TaskIds :
          (tasks[p].pc = "respond" /\ tasks'[p].fallback_at # 0) =>
              LET kv == KeywordValues(tasks[p].seen.current_milestone,
                                      tasks[p].message)
              IN  \A c \in DOMAIN kv :
                      ~Truthy(tasks[p].seen[c]) => journey'[c] = kv[c]]_vars

\* C22 witness: two turns on the same journey both observed room as null and
\* both wrote it; the stored room is the value of the later write, the value
\* of the earlier one is gone.
C22_Witness ==
    \E p, q \in TaskIds :
        /\ tasks[p].pc = "done" /\ tasks[q].pc = "done"
        /\ tasks[p].seen.room = Null /\ tasks[q].seen.room = Null
        /\ "room" \in DOMAIN tasks[p].update_data
        /\ "room" \in DOMAIN tasks[q].update_data
        /\ tasks[p].update_data["room"] = "kitchen"
        /\ tasks[q].update_data["room"] = "bathroom"
        /\ 0 < tasks[p].fallback_at
        /\ tasks[p].fallback_at < tasks[q].fallback_at
        /\ journey.room = "bathroom"

\* A step that ran the keyword fallback on the journey.
IsFallbackRun == pc = "fallback" /\ pc' = "done"

\* The checkpoint fields whose value differs between two journey rows.
WrittenCheckpoints(before, after) ==
    {c \in CheckpointNames : after[c] # before[c]}

\* C23 (as claimed): one run of the keyword fallback writes no checkpoint
\* field other than the current milestone's next-unfilled checkpoint; the
\* other checkpoint of the milestone is not written in the same run.
C23_FallbackWritesOnlyNextUnfilled ==
    [][IsFallbackRun =>
        WrittenCheckpoints(journey, journey')
            \subseteq {_get_next_checkpoint_to_extract(journey)}]_vars

\* C29: the keyword fallback writes a checkpoint field only if the field is
\* not filled and belongs to the journey's current milestone; every filled
\* field and every field of another milestone keeps its value.
C29_FallbackFirstWriteWins ==
    [][IsFallbackRun =>
        \A c \in CheckpointNames :
            \/ journey'[c] = journey[c]
            \/ /\ ~Truthy(journey[c])
               /\ MilestoneOf(c) = journey.current_milestone]_vars

\* C29 witness: at milestone 2 with the budget stored, a message holding a
\* keyword for each of the six checkpoints has run through the fallback: the
\* timeline was written, the budget kept, the fields of milestones 1 and 3
\* are still null.
C29_Witness ==
    /\ pc = "done"
    /\ message = "My Kitchen needs repair: cheap and quick, modern with storage"
    /\ journey.current_milestone = 2
    /\ journey.budget_range = "kitchen"
    /\ journey.timeline = "weeks"
    /\ journey.room = Null
    /\ journey.renovation_purpose = Null
    /\ journey.style_preference = Null
    /\ journey.priority_feature = Null
    /\ journey.milestone2_completed

\* The checkpoints of milestone n, in the fixed order, that are not filled.
Unfilled(j, n) ==
    SelectSeq(_get_valid_checkpoints_for_milestone(n),
              LAMBDA c : ~Truthy(j[c]))

\* C26: the Sentinel's target is the first checkpoint of the current
\* milestone, in the order (room, renovation_purpose), (budget_range,
\* timeline), (style_preference, priority_feature), whose field is not filled;
\* there is no target when both are filled or current_milestone is outside
\* 1..3.
C26_TargetIsFirstUnfilled ==
    pc = "targeted" =>
        LET n == journey.current_milestone
        IN  IF n \in 1..3 /\ Unfilled(journey, n) # <<>>
            THEN returned = Head(Unfilled(journey, n))
            ELSE returned = Null

\* C26 witness: at milestone 2 with the budget stored and the timeline null,
\* the target is timeline although the checkpoints of milestones 1 and 3 are
\* null too.
C26_Witness ==
    /\ pc = "targeted"
    /\ journey.current_milestone = 2
    /\ journey.room = Null
    /\ journey.budget_range = "kitchen"
    /\ journey.timeline = Null
    /\ journey.style_preference = Null
    /\ returned = "timeline"

\* The canonical values of a constrained checkpoint in their priority order.
CanonicalOrder(checkpoint) ==
    CASE checkpoint = "budget_range" -> <<"low", "medium", "high">>
      [] checkpoint = "timeline" -> <<"weeks", "months">>
      [] checkpoint = "style_preference" ->
            <<"modern", "traditional", "rustic", "minimalist", "contemporary">>
      [] checkpoint = "priority_feature" ->
            <<"storage", "lighting", "space", "energy efficiency",
              "smart features">>

\* The normalizer has run on a proposal for a constrained checkpoint.
NormalizedConstrained ==
    /\ pc = "normalized"
    /\ last_call.checkpoint_name \in ConstrainedCheckpoints

\* C27 (as claimed): for a constrained checkpoint, when some canonical value
\* occurs literally in the (stripped, lower-cased) input, the normalizer
\* returns the first canonical value, in priority order, that occurs in it;
\* synonyms decide only when no canonical value occurs.
C27_LiteralValuesFirst ==
    NormalizedConstrained =>
        LET literal == FirstIn(CanonicalOrder(last_call.checkpoint_name),
                               Lower(Strip(last_call.value)))
        IN  literal # Null => returned = literal

\* The documented default of a constrained checkpoint.
NormalizerDefault(checkpoint) ==
    CASE checkpoint = "budget_range" -> "medium"
      [] checkpoint = "timeline" -> "months"
      [] checkpoint = "style_preference" -> "modern"
      [] checkpoint = "priority_feature" -> "space"

\* C28: for budget_range, timeline, style_preference and priority_feature the
\* normalizer returns a member of the checkpoint's canonical set for every
\* input, and the default (medium, months, modern, space) when no keyword of
\* the checkpoint occurs in the input.
C28_NormalizerTotalWithDefaults ==
    NormalizedConstrained =>
        /\ returned \in CanonicalValues(last_call.checkpoint_name)
        /\ ~AnyIn(NormalizerKeywords(last_call.checkpoint_name),
                  Lower(Strip(last_call.value)))
              => returned = NormalizerDefault(last_call.checkpoint_name)

\* C28 witness: an input without any budget keyword was normalized to the
\* default "medium".
C28_Witness ==
    /\ pc = "normalized"
    /\ last_call.checkpoint_name = "budget_range"
    /\ last_call.value = "no idea"
    /\ returned = "medium"

\* C33 (as claimed): in every state reachable by chat turns, current_milestone
\* = k implies that every milestone N < k is flagged complete and has both of
\* its checkpoint fields non-null.
C33_NoMilestoneSkipped ==
    \A n \in 1..3 :
        n < journey.current_milestone =>
            /\ MilestoneCompleted(journey, n)
            /\ \A i \in 1..2 :
                  journey[_get_valid_checkpoints_for_milestone(n)[i]] # Null

\* C34 (as claimed): in every state reachable by chat turns, status =
\* "completed" implies that all six checkpoint fields are non-null.
C34_CompletedHasAllCheckpoints ==
    journey.status = "completed" =>
        \A c \in CheckpointNames : journey[c] # Null

\* C39: for each milestone the completion timestamp is non-null exactly when
\* the flag is true, and a step of a chat turn neither resets a flag that is
\* true nor changes its timestamp.
C39_FlagsAndTimestamps ==
    [][/\ \A n \in 1..3 :
             MilestoneCompleted(journey', n)
                <=> MilestoneCompletedAt(journey', n) # Nil
       /\ \A n \in 1..3 :
             MilestoneCompleted(journey, n) =>
                /\ MilestoneCompleted(journey', n)
                /\ MilestoneCompletedAt(journey', n)
                      = MilestoneCompletedAt(journey, n)]_vars

\* C39 witness: milestone 1 was flagged at the first turn and the journey has
\* been changed again at a later time; the stamp of milestone 1 is still the
\* first turn's.
C39_Witness ==
    /\ journey.milestone1_completed
    /\ journey.milestone1_completed_at = <<1>>
    /\ journey.updated_at = 2
    /\ journey.milestone2_completed
    /\ journey.milestone2_completed_at = <<2>>

\* C37 (as claimed): on the four constrained checkpoints the normalizer
\* applied to its own result returns that result again.
C37_NormalizerIdempotent ==
    (pc = "renormalized"
        /\ last_call.checkpoint_name \in ConstrainedCheckpoints)
        => returned = last_call.value

\* C32: a chat turn for journey J changes fields of journey J only: whatever
\* journey_id the update_journey call of the Sentinel response names, the
\* rows of all other journeys are after a step of the turn what they were
\* before it.
C32_TurnChangesOwnJourneyOnly ==
    [][ \A p \in RequestIds :
          (InFlight(tasks[p]) /\ tasks'[p] # tasks[p]) =>
            \A k \in 1..Len(journeys) :
              k # tasks[p].journey_id => journeys'[k] = journeys[k] ]_vars

\* C38: every stored message carries the user id of the owner of its
\* journey, and a turn submitted with a user id that does not own the journey
\* stores no message and changes no journey in any of its steps.
C38_MessagesCarryOwnerId ==
    [][ /\ \A i \in 1..Len(messages') :
             messages'[i].user_id = journeys'[messages'[i].journey_id].user_id
        /\ \A p \in RequestIds :
             \E request \in {IF InFlight(tasks[p]) THEN tasks[p]
                              ELSE tasks'[p]} :
               ( /\ tasks'[p] # tasks[p]
                 /\ request.journey_id \in 1..Len(journeys)
                 /\ journeys[request.journey_id].user_id # request.user_id )
                 => (messages' = messages /\ journeys' = journeys)
        /\ \A user_id \in IsolationIds, journey_id \in 1..Len(journeys),
              msg \in SessionMessages :
             ( /\ journeys[journey_id].user_id # user_id
               /\ ProcessMessageEndpoint(user_id, journey_id, msg) )
               => (messages' = messages /\ journeys' = journeys) ]_vars

\* C35: the input of the response call is the selected system prompt
\* followed by the most recent messages of the journey, at most 10, oldest
\* first, and the user message of the turn is in it exactly once.  The
\* input is built in the step that ends with the response call, from the
\* messages stored then.
C35_ResponseInput ==
    [][ \A p \in RequestIds :
          (tasks[p].pc \in {"sentinel", "submit"} /\ tasks'[p].pc = "respond")
            => LET log == messages'
                   n == Len(log)
                   k == IF n < 10 THEN n ELSE 10
                   system_prompt ==
                       get_prompt_for_journey(
                           tasks'[p].seen,
                           _get_completed_checkpoints(tasks'[p].seen))
               IN  /\ input_data' =
                         << [role |-> "system", content |-> system_prompt] >>
                         \o [i \in 1..k |->
                               [role |-> log[n - k + i].speaker,
                                content |-> log[n - k + i].content]]
                   /\ Cardinality({i \in 1..Len(input_data') :
                                     input_data'[i] =
                                         [role |-> "user",
                                          content |-> tasks'[p].message]}) = 1
      ]_vars

\* C36: in the log of the journey the current_milestone tags never go
\* down from a message to a later one; in particular the tag of the
\* assistant message of a turn is at least the tag of its user message.
C36_TagsNonDecreasing ==
    /\ \A i \in 1..Len(messages) : \A k \in 1..Len(messages) :
          i < k => messages[i].current_milestone
                     <= messages[k].current_milestone
    /\ (TurnEnded /\ Len(messages) = Len(turn.log_before) + 2) =>
          /\ messages[Len(messages) - 1].speaker = "user"
          /\ messages[Len(messages)].speaker = "assistant"
          /\ messages[Len(messages)].current_milestone
               >= messages[Len(messages) - 1].current_milestone

\* A turn has ended on a journey whose earlier exchange moved it to
\* milestone 2: the log holds the tags 1 and 2 of that exchange, then the
\* user message and the assistant message of the turn, both tagged 2.
C36_Witness ==
    /\ TurnEnded
    /\ Len(turn.log_before) = 2
    /\ Len(messages) = 4
    /\ messages[1].current_milestone = 1
    /\ messages[2].current_milestone = 2
    /\ messages[3].speaker = "user"
    /\ messages[3].current_milestone = 2
    /\ messages[4].speaker = "assistant"
    /\ messages[4].current_milestone = 2
C31_Progress ==
    (journeys[1].row.status = "in_progress"
        /\ clock + Cardinality(CheckpointNames) <= MaxProgressClock)
        ~> (journeys[1].row.status = "completed")

====
